---------------------------- MODULE Spec2Model ----------------------------
(***************************************************************************)
(* Multi-source image acquisition and ranking pipeline                     *)
(* (naustra/bac-a-sable-vilma).                                            *)
(*                                                                         *)
(* The module holds several specifications over one list of variables,     *)
(* one per layer of the program:                                           *)
(*   SpecTerm     MultiSourceImageDownloader.download_10_images_for_word:  *)
(*                the adapters, the fetch pool, the collector and          *)
(*                select_best_image, for one term.                         *)
(*   SpecTheme    a theme run: download_images_for_theme (term pool,       *)
(*                conversion, selection.json) and                          *)
(*                UnifiedImageDownloader.download_for_theme with the CLIP  *)
(*                selection or create_basic_selection.                     *)
(*   SpecSelect   one selection among the files of a term: the heuristic   *)
(*                select_best_image of both multi-source downloaders and   *)
(*                the CLIP selection.                                      *)
(*   SpecValidate one download_image call of either downloader.            *)
(*   SpecAdapter  one search call of a source adapter.                     *)
(*   SpecElement  one term with the urls of its candidates:                *)
(*                UnifiedImageDownloader.download_for_element and          *)
(*                MultiSourceImageDownloaderSimple                         *)
(*                .download_10_images_for_word.                            *)
(* Each specification leaves the variables of the other layers unchanged.  *)
(***************************************************************************)
EXTENDS Integers, Sequences, FiniteSets, TLC

VARIABLES
    \* ---- shared by the term and the theme layers
    max_workers,        \* self.max_workers
    disk,               \* files under the output / photos directory
    \* ---- one term of MultiSourceImageDownloader (SpecTerm)
    available_sources,  \* self.available_sources
    pc,                 \* position in download_10_images_for_word
    all_images,         \* all_images: the merged candidate list
    searched,           \* the search requests sent so far: source, candidates returned
    futures,            \* futures: one entry per submitted download_image call
    cur,                \* index of the future the collector waits on
    timed_out,          \* indices whose future.result(timeout=30) expired
    downloaded_files,   \* downloaded_files
    best_image,         \* value returned as best_image
    \* ---- one theme run (SpecTheme)
    mode,               \* "heuristic" | "clip" | "basic": which run it is
    elements,           \* config['elements'], as the list of nom_francais
    tpc,                \* position in the run
    workers,            \* one future per submitted download_10_images_for_word
    results,            \* results: {french_name: basename of best image}, a
                        \* dict: its items in the order the keys were inserted
    conversions,        \* file names convertir_images_pour_docx renamed
    manifest,           \* 'elements' of selection.json
    eidx,               \* index of the element a sequential loop is at
    \* ---- one selection among the files of a term (SpecSelect)
    scall,              \* the files, the list handed over and the CLIP outcome
    sres,               \* the selected image
    spc,
    \* ---- one download_image call (SpecValidate)
    vcall,              \* the call: class, response, image_info, save path
    vres,               \* what the call returned and left on disk
    vpc,                \* "call" before the call, "done" after it
    \* ---- one source adapter search call (SpecAdapter)
    acall,              \* the call: adapter, credentials, provider answer, count
    ares,               \* what the call returned
    apc,                \* "call" before the call, "done" after it
    \* ---- one term of the downloaders whose candidates carry their url
    \*      (SpecElement)
    el_cls,             \* "unified" | "simple": the downloader class
    images_par_element, \* images_par_element of download_for_element
    el_available,       \* self.available_sources
    el_pc,              \* position in the term
    el_images,          \* all_images: the merged candidate list
    el_futures,         \* future_to_info, in submission order
    el_files,           \* downloaded_files / all_files
    el_best             \* best_image of the simple downloader

sharedVars == <<max_workers, disk>>

termVars == <<available_sources, pc, all_images, searched, futures, cur,
              timed_out, downloaded_files, best_image>>

themeVars == <<mode, elements, tpc, workers, results, conversions, manifest, eidx>>

valVars == <<vcall, vres, vpc>>

adapterVars == <<acall, ares, apc>>

selectVars == <<scall, sres, spc>>

elementVars == <<el_cls, images_par_element, el_available, el_pc, el_images,
                 el_futures, el_files, el_best>>

vars == <<sharedVars, termVars, themeVars, valVars, adapterVars, selectVars, elementVars>>

\* What each layer's actions leave alone.
notTerm    == <<themeVars, valVars, adapterVars, selectVars, elementVars>>
notTheme   == <<termVars, valVars, adapterVars, selectVars, elementVars>>
notVal     == <<sharedVars, termVars, themeVars, adapterVars, selectVars, elementVars>>
notAdapter == <<sharedVars, termVars, themeVars, valVars, selectVars, elementVars>>
notSelect  == <<sharedVars, termVars, themeVars, valVars, adapterVars, elementVars>>
notElement == <<termVars, themeVars, valVars, adapterVars, selectVars>>

-----------------------------------------------------------------------------
(* Bounds of the model *)

\* Largest number of candidates the providers return for one term, in total.
MaxCand == 2

\* Largest configured pool size.
MaxWorkers == 2

\* Largest number of elements in a theme's config.json.
MaxTerms == 2

\* Largest number of files of one term a selection looks at.
MaxFiles == 2

-----------------------------------------------------------------------------
(* Values *)

\* The variables of a layer that a specification does not run.
ValIdle == vcall = [cls |-> ""] /\ vres = [accepted |-> FALSE] /\ vpc = "off"

AdapterIdle == acall = [adapter |-> ""] /\ ares = [raised |-> FALSE] /\ apc = "off"

SelectIdle == scall = [kind |-> ""] /\ sres = [name |-> ""] /\ spc = "off"

SharedIdle == max_workers = 0 /\ disk = {}

TermIdle ==
    /\ available_sources = {} /\ pc = "off"
    /\ all_images = <<>> /\ searched = <<>> /\ futures = <<>> /\ cur = 0
    /\ timed_out = {} /\ downloaded_files = <<>> /\ best_image = [name |-> ""]

ThemeIdle ==
    /\ mode = "off" /\ elements = <<>> /\ tpc = "off" /\ workers = <<>>
    /\ results = <<>> /\ conversions = {} /\ manifest = <<>> /\ eidx = 0

ElementIdle ==
    /\ el_cls = "off" /\ images_par_element = 0 /\ el_available = {}
    /\ el_pc = "off" /\ el_images = <<>> /\ el_futures = <<>>
    /\ el_files = <<>> /\ el_best = [name |-> ""]

\* None, as a path: select_best_image returns None when nothing was scored.
NoImage == [name |-> "", source |-> "", idx |-> 0, ext |-> ""]

Range(s) == {s[i] : i \in 1..Len(s)}

\* s[:n]
Take(s, n) == IF Len(s) <= n THEN s ELSE SubSeq(s, 1, n)

\* Properties of a payload body: width, height (pixels), size (bytes).
\* "corrupt" is a body whose header PIL cannot read, "empty" has no bytes,
\* "truncated" has a readable header and pixel data that cannot be decoded.
ImageOf(body) ==
    CASE body = "big"       -> [w |-> 1000, h |-> 900, bytes |-> 1048576]
      [] body = "small"     -> [w |-> 640,  h |-> 640, bytes |-> 1048576]
      [] body = "wide"      -> [w |-> 900,  h |-> 500, bytes |-> 1048576]
      [] body = "heavy"     -> [w |-> 1000, h |-> 900, bytes |-> 6291456]
      [] body = "huge"      -> [w |-> 1000, h |-> 900, bytes |-> 11534336]
      [] body = "thumb"     -> [w |-> 150,  h |-> 150, bytes |-> 20480]
      [] body = "truncated" -> [w |-> 640,  h |-> 640, bytes |-> 524288]
      [] body = "corrupt"   -> [w |-> 0,    h |-> 0,   bytes |-> 2048]
      [] OTHER              -> [w |-> 0,    h |-> 0,   bytes |-> 0]

\* Image.open(path) succeeds and img.size can be read.
Decodable(body) == body \in {"big", "small", "wide", "heavy", "huge", "thumb", "truncated"}

\* The pixel data can be decoded (img.convert, img.save).
Loadable(body) == body \in {"big", "small", "wide", "heavy", "huge", "thumb"}

Min2(a, b) == IF a <= b THEN a ELSE b
Max2(a, b) == IF a >= b THEN a ELSE b

-----------------------------------------------------------------------------
(* config_api.get_available_sources *)

\* The sets get_available_sources can return: wikipedia always, the others
\* when their API key is set.
AvailableSourceSets ==
    {{"wikipedia"} \cup s : s \in SUBSET {"unsplash", "pexels", "pixabay", "wikimedia"}}

-----------------------------------------------------------------------------
(* MultiSourceImageDownloader.download_image *)

\* What the HTTP GET of a candidate's url yields: a network error (exception,
\* timeout, non-2xx) or a payload with its leading bytes and its body.
FetchResponses ==
    {[status |-> "neterr", magic |-> "", body |-> ""],
     [status |-> "ok", magic |-> "svg",   body |-> ""],
     [status |-> "ok", magic |-> "other", body |-> ""],
     [status |-> "ok", magic |-> "png",   body |-> "corrupt"],
     [status |-> "ok", magic |-> "png",   body |-> "big"],
     [status |-> "ok", magic |-> "jpg",   body |-> "small"],
     [status |-> "ok", magic |-> "jpg",   body |-> "big"]}

\* download_image(image_info, save_path) -> (success, final_path); final_path
\* is save_path with the extension of the sniffed format.
MSDownloadImage(resp, save_path) ==
    IF resp.status = "neterr" THEN [success |-> FALSE, path |-> NoImage]
    ELSE IF resp.magic \in {"svg", "xml"} THEN [success |-> FALSE, path |-> NoImage]
    ELSE IF resp.magic = "png"
        THEN [success |-> TRUE, path |-> [save_path EXCEPT !.ext = "png"]]
    ELSE IF resp.magic = "jpg"
        THEN [success |-> TRUE, path |-> [save_path EXCEPT !.ext = "jpg"]]
    ELSE [success |-> FALSE, path |-> NoImage]

-----------------------------------------------------------------------------
(* MultiSourceImageDownloader.select_best_image *)

\* The body stored at a path; "corrupt" (not openable) when no file is there.
BodyAt(d, path) ==
    IF \E f \in d : f.path = path
    THEN (CHOOSE f \in d : f.path = path).body
    ELSE "corrupt"

\* Source priority bonus read from the file name.
SourceBonus(path) ==
    CASE path.source = "unsplash"  -> 4
      [] path.source = "pexels"    -> 3
      [] path.source = "wikipedia" -> 2
      [] path.source = "wikimedia" -> 1
      [] OTHER                     -> 0

\* The score of one openable image.
HeuristicScore(path, body) ==
    LET img   == ImageOf(body)
        lo    == Min2(img.w, img.h)
        hi    == Max2(img.w, img.h)
    IN  (IF img.w >= 800 THEN 2 ELSE 0)
      + (IF 10 * lo > 8 * hi THEN 3 ELSE IF 10 * lo > 6 * hi THEN 1 ELSE 0)
      + SourceBonus(path)
      + (IF img.bytes < 5 * 1024 * 1024 THEN 1 ELSE 0)

\* The loop of select_best_image from position i, with the running best.
RECURSIVE SelectLoop(_, _, _, _, _)
SelectLoop(d, image_list, i, best, best_score) ==
    IF i > Len(image_list) THEN best
    ELSE LET p == image_list[i]
             b == BodyAt(d, p)
         IN  IF ~Decodable(b)
             THEN SelectLoop(d, image_list, i + 1, best, best_score)
             ELSE LET score == HeuristicScore(p, b)
                  IN  IF score > best_score
                      THEN SelectLoop(d, image_list, i + 1, p, score)
                      ELSE SelectLoop(d, image_list, i + 1, best, best_score)

\* A selection that keeps the first image it can open.
FirstOpenable(d, image_list) ==
    IF \E i \in 1..Len(image_list) : Decodable(BodyAt(d, image_list[i]))
    THEN image_list[CHOOSE i \in 1..Len(image_list) :
                        /\ Decodable(BodyAt(d, image_list[i]))
                        /\ \A j \in 1..(i - 1) : ~Decodable(BodyAt(d, image_list[j]))]
    ELSE NoImage

select_best_image(d, image_list) ==
    IF image_list = <<>> THEN NoImage
    ELSE SelectLoop(d, image_list, 1, NoImage, -1)

-----------------------------------------------------------------------------
(* MultiSourceImageDownloader.download_10_images_for_word, one term *)

TermName == "oeil"

\* What a provider answers to a search request:
\*   "timeout"     session.get raises (timeout, connection error)
\*   "http_error"  a non-2xx status: raise_for_status raises
\*   "bad_json"    a body response.json() cannot parse
\*   "no_key"      a JSON object without the expected entries
\*   "incomplete"  n results, the first lacking a field the adapter reads
\*   "ok"          n complete results
ErrorKinds == {"timeout", "http_error", "bad_json", "no_key"}

Answer(kind, n) == [kind |-> kind, n |-> n]

Returned(items) == [raised |-> FALSE, items |-> items]
Raised == [raised |-> TRUE, items |-> <<>>]

Candidates(source, n) == [i \in 1..n |-> [source |-> source]]

\* MultiSourceImageDownloader.download_from_unsplash / download_from_pexels:
\* [] without credentials; every exception (a failed request, a KeyError
\* on photo['urls'], ...) is caught and gives []; otherwise one candidate
\* per result of the provider.
KeyedAdapter(source, avail, outcome) ==
    IF source \notin avail THEN Returned(<<>>)
    ELSE IF outcome.kind \in {"timeout", "http_error", "bad_json"} THEN Returned(<<>>)
    ELSE IF outcome.kind = "no_key" THEN Returned(<<>>)
    ELSE IF outcome.kind = "incomplete" THEN Returned(<<>>)
    ELSE Returned(Candidates(source, outcome.n))

\* MultiSourceImageDownloader.download_from_wikipedia: the main image of
\* the article, at most one; next(iter(pages.values())) on an answer without
\* pages raises StopIteration, caught like every exception.
WikipediaAdapter(outcome) ==
    IF outcome.kind \in {"timeout", "http_error", "bad_json"} THEN Returned(<<>>)
    ELSE IF outcome.kind = "no_key" THEN Returned(<<>>)
    ELSE IF outcome.n = 0 THEN Returned(<<>>)
    ELSE IF outcome.kind = "incomplete" THEN Returned(<<>>)
    ELSE Returned(Candidates("wikipedia", 1))

\* MultiSourceImageDownloader.download_from_wikimedia(query, count): at most
\* count images.
WikimediaAdapter(outcome, count) ==
    IF outcome.kind \in {"timeout", "http_error", "bad_json"} THEN Returned(<<>>)
    ELSE IF outcome.kind = "no_key" THEN Returned(<<>>)
    ELSE IF outcome.n = 0 THEN Returned(<<>>)
    ELSE IF outcome.kind = "incomplete" THEN Returned(<<>>)
    ELSE Returned(Candidates("wikimedia", Min2(outcome.n, count)))

\* The answers a provider gives in the model of one term.
SearchOutcomes == {Answer("http_error", 0)} \cup {Answer("ok", n) : n \in 0..MaxCand}

\* A provider is asked for no more than the model's candidate budget.
RoomFor(outcome) == Len(all_images) + outcome.n <= MaxCand

TermInit ==
    /\ ElementIdle
    /\ SelectIdle
    /\ ThemeIdle
    /\ ValIdle
    /\ AdapterIdle
    /\ available_sources \in AvailableSourceSets
    /\ max_workers \in 1..MaxWorkers
    /\ pc = "unsplash"
    /\ all_images = <<>>
    /\ searched = <<>>
    /\ futures = <<>>
    /\ cur = 1
    /\ timed_out = {}
    /\ downloaded_files = <<>>
    /\ disk = {}
    /\ best_image = NoImage

\* A term that asks a source whatever the configured keys.
AskedWithoutKey(source, avail) == TRUE

\* The guard download_10_images_for_word puts before a source.
SourceAsked(source, avail) == source \in avail

\* Whether download_from_unsplash / download_from_pexels send their request:
\* they return [] before it when the source has no credentials.
KeyedAdapterRequests(source, avail) == source \in avail

\* The record of a search request that was sent.
Sent(source, items) == <<[source |-> source, n |-> Len(items)]>>

SearchUnsplash ==
    /\ pc = "unsplash"
    /\ pc' = "pexels"
    /\ IF SourceAsked("unsplash", available_sources)
       THEN \E o \in SearchOutcomes :
               LET items == KeyedAdapter("unsplash", available_sources, o).items
               IN  /\ RoomFor(o)
                   /\ all_images' = all_images \o items
                   /\ searched' = IF KeyedAdapterRequests("unsplash", available_sources)
                                  THEN searched \o Sent("unsplash", items) ELSE searched
       ELSE UNCHANGED <<all_images, searched>>
    /\ UNCHANGED <<notTerm, available_sources, max_workers, futures, cur, timed_out,
                   downloaded_files, disk, best_image>>

SearchPexels ==
    /\ pc = "pexels"
    /\ pc' = "wikipedia"
    /\ IF SourceAsked("pexels", available_sources)
       THEN \E o \in SearchOutcomes :
               LET items == KeyedAdapter("pexels", available_sources, o).items
               IN  /\ RoomFor(o)
                   /\ all_images' = all_images \o items
                   /\ searched' = IF KeyedAdapterRequests("pexels", available_sources)
                                  THEN searched \o Sent("pexels", items) ELSE searched
       ELSE UNCHANGED <<all_images, searched>>
    /\ UNCHANGED <<notTerm, available_sources, max_workers, futures, cur, timed_out,
                   downloaded_files, disk, best_image>>

SearchWikipedia ==
    /\ pc = "wikipedia"
    /\ pc' = "wikimedia"
    /\ IF SourceAsked("wikipedia", available_sources)
       THEN \E o \in SearchOutcomes :
               LET items == WikipediaAdapter(o).items
               IN  /\ RoomFor(o)
                   /\ all_images' = all_images \o items
                   /\ searched' = searched \o Sent("wikipedia", items)
       ELSE UNCHANGED <<all_images, searched>>
    /\ UNCHANGED <<notTerm, available_sources, max_workers, futures, cur, timed_out,
                   downloaded_files, disk, best_image>>

\* The last adapter call, then `if not all_images: return [], None`, else the
\* submission loop over all_images[:10].
SavePath(i) == [name |-> TermName, source |-> all_images'[i].source, idx |-> i, ext |-> "jpg"]

\* A submission loop over the whole merged list.
SubmitsAll(images, ceiling) == images

\* The candidates the submission loop goes through: all_images[:10],
\* all_images[:images_par_element].
Submitted(images, ceiling) == Take(images, ceiling)

\* A term that opens its fetch pool whatever the candidate list.
NoEarlyReturn(images) == FALSE

\* `if not all_images: return [], None`
NothingFound(images) == images = <<>>

SearchWikimedia ==
    /\ pc = "wikimedia"
    /\ IF SourceAsked("wikimedia", available_sources)
       THEN \E o \in SearchOutcomes :
               LET items == WikimediaAdapter(o, 2).items
               IN  /\ RoomFor(o)
                   /\ all_images' = all_images \o items
                   /\ searched' = searched \o Sent("wikimedia", items)
       ELSE UNCHANGED <<all_images, searched>>
    /\ IF NothingFound(all_images')
       THEN /\ pc' = "done"
            /\ futures' = futures
       ELSE /\ pc' = "fetch"
            /\ futures' = [i \in 1..Len(Submitted(all_images', 10)) |->
                             [state |-> "queued", success |-> FALSE,
                              save_path |-> SavePath(i), path |-> NoImage]]
    /\ UNCHANGED <<notTerm, available_sources, max_workers, cur, timed_out,
                   downloaded_files, disk, best_image>>

InFlight == {i \in 1..Len(futures) : futures[i].state = "running"}
Queued   == {i \in 1..Len(futures) : futures[i].state = "queued"}

\* A pool that starts a thread for every submitted call.
PoolStartsEveryCall == TRUE

\* ThreadPoolExecutor(max_workers=self.max_workers): a queued call starts
\* only on an idle worker thread.
PoolHasIdleWorker == Cardinality(InFlight) < max_workers

\* A worker thread takes the oldest queued download_image call.
StartFetch(i) ==
    /\ pc = "fetch"
    /\ i \in Queued
    /\ \A j \in Queued : i <= j
    /\ PoolHasIdleWorker
    /\ futures' = [futures EXCEPT ![i].state = "running"]
    /\ UNCHANGED <<notTerm, searched, available_sources, max_workers, pc, all_images, cur, timed_out,
                   downloaded_files, disk, best_image>>

\* A download_image that appends its final path to downloaded_files from
\* its worker thread.
FinishFetchAppends(i) ==
    /\ pc = "fetch"
    /\ i \in InFlight
    /\ \E resp \in FetchResponses :
          LET r == MSDownloadImage(resp, futures[i].save_path)
          IN  /\ futures' = [futures EXCEPT ![i] =
                    [@ EXCEPT !.state = "done", !.success = r.success, !.path = r.path]]
              /\ disk' = IF r.success
                         THEN {f \in disk : f.path # r.path}
                                \cup {[path |-> r.path, body |-> resp.body]}
                         ELSE disk
              /\ downloaded_files' = IF r.success
                                     THEN Append(downloaded_files, r.path)
                                     ELSE downloaded_files
    /\ UNCHANGED <<notTerm, searched, available_sources, max_workers, pc, all_images, cur, timed_out,
                   best_image>>

\* download_image returns: the response is sniffed and, when accepted, the
\* payload is written to final_path.
FinishFetch(i) ==
    /\ pc = "fetch"
    /\ i \in InFlight
    /\ \E resp \in FetchResponses :
          LET r == MSDownloadImage(resp, futures[i].save_path)
          IN  /\ futures' = [futures EXCEPT ![i] =
                    [@ EXCEPT !.state = "done", !.success = r.success, !.path = r.path]]
              /\ disk' = IF r.success
                         THEN {f \in disk : f.path # r.path}
                                \cup {[path |-> r.path, body |-> resp.body]}
                         ELSE disk
    /\ UNCHANGED <<notTerm, searched, available_sources, max_workers, pc, all_images, cur, timed_out,
                   downloaded_files, best_image>>

\* future.result(timeout=30) of the next future in submission order returns.
CollectResult ==
    /\ pc = "fetch"
    /\ cur <= Len(futures)
    /\ futures[cur].state = "done"
    /\ downloaded_files' = IF futures[cur].success
                           THEN Append(downloaded_files, futures[cur].path)
                           ELSE downloaded_files
    /\ cur' = cur + 1
    /\ UNCHANGED <<notTerm, searched, available_sources, max_workers, pc, all_images, futures,
                   timed_out, disk, best_image>>

\* A collector that leaves its loop at the first wait that expires.
CollectTimeoutLeavesLoop ==
    /\ pc = "fetch"
    /\ cur <= Len(futures)
    /\ futures[cur].state # "done"
    /\ timed_out' = timed_out \cup {cur}
    /\ cur' = Len(futures) + 1
    /\ UNCHANGED <<notTerm, searched, available_sources, max_workers, pc, all_images, futures,
                   downloaded_files, disk, best_image>>

\* future.result(timeout=30) expires: the exception is caught and printed.
CollectTimeout ==
    /\ pc = "fetch"
    /\ cur <= Len(futures)
    /\ futures[cur].state # "done"
    /\ timed_out' = timed_out \cup {cur}
    /\ cur' = cur + 1
    /\ UNCHANGED <<notTerm, searched, available_sources, max_workers, pc, all_images, futures,
                   downloaded_files, disk, best_image>>

\* Leaving the with block waits for every submitted call, then
\* select_best_image(downloaded_files) and the return.
SelectBest ==
    /\ pc = "fetch"
    /\ cur > Len(futures)
    /\ \A i \in 1..Len(futures) : futures[i].state = "done"
    /\ best_image' = select_best_image(disk, downloaded_files)
    /\ pc' = "done"
    /\ UNCHANGED <<notTerm, searched, available_sources, max_workers, all_images, futures, cur,
                   timed_out, downloaded_files, disk>>

NextTerm ==
    \/ SearchUnsplash
    \/ SearchPexels
    \/ SearchWikipedia
    \/ SearchWikimedia
    \/ \E i \in 1..MaxCand + 1 : StartFetch(i)
    \/ \E i \in 1..MaxCand + 1 : FinishFetch(i)
    \/ CollectResult
    \/ CollectTimeout
    \/ SelectBest

SpecTerm == TermInit /\ [][NextTerm]_vars

-----------------------------------------------------------------------------
(* Properties of one term (SpecTerm) *)

\* The candidates whose bytes were fetched and passed the format sniff.
Validated == {i \in 1..Len(futures) : futures[i].state = "done" /\ futures[i].success}

\* C2: when the term is finished, it has a selected image if some returned
\* candidate was fetched and passed validation, and the empty marker if none
\* did.
C2_ValidatedCandidateIsSelected ==
    pc = "done" => ((Validated # {}) <=> (best_image # NoImage))

\* C5: the number of download_image calls of the term that have started and
\* not yet returned never exceeds max_workers.
C5_InFlightWithinPool == Cardinality(InFlight) <= max_workers

\* C5 witness: the pool is full while a submitted call still waits.
C5_PoolFullWitness ==
    /\ pc = "fetch"
    /\ Cardinality(InFlight) = max_workers
    /\ Queued # {}

\* The sources download_10_images_for_word knows.
TermSources == {"unsplash", "pexels", "wikipedia", "wikimedia"}

\* The candidates of a source in the merged list.
FromSource(source) == {i \in 1..Len(all_images) : all_images[i].source = source}

\* The search requests sent to a source.
RequestsTo(source) == {k \in 1..Len(searched) : searched[k].source = source}

\* C13: no search request is sent to a source whose credentials are missing
\* and it contributes no candidate; once the searches are over every source
\* with credentials has been asked once and the merged list holds the
\* candidates each of them returned.
C13_MissingKeySkipsOnlyThatSource ==
    /\ \A source \in TermSources \ available_sources :
          RequestsTo(source) = {} /\ FromSource(source) = {}
    /\ pc \in {"fetch", "done"} =>
          \A source \in TermSources \cap available_sources :
              /\ Cardinality(RequestsTo(source)) = 1
              /\ \A k \in RequestsTo(source) :
                    Cardinality(FromSource(source)) = searched[k].n

\* C13 witness: the searches are over, unsplash has no key and another
\* source contributed a candidate.
C13_OtherSourceContributesWitness ==
    /\ pc = "fetch"
    /\ "unsplash" \notin available_sources
    /\ \E k \in 1..Len(searched) : searched[k].n > 0

C17_NoCandidateGoesToEmpty ==
    (pc \in {"fetch", "done"} /\ all_images = <<>>) =>
        /\ pc = "done"
        /\ futures = <<>> /\ cur = 1 /\ timed_out = {}
        /\ disk = {} /\ downloaded_files = <<>>
        /\ best_image = NoImage

\* C17 witness: a finished term whose sources were asked and returned
\* nothing.
C17_AllEmptyWitness ==
    /\ pc = "done"
    /\ all_images = <<>>
    /\ Len(searched) >= 2

\* The futures a step of a fetch worker thread changed.
WorkerWrote == {i \in 1..Len(futures) : futures'[i] # futures[i]}

C30_SavedImageIsInTheSelection ==
    pc = "done" =>
        \A i \in Validated :
            (\E f \in disk : f.path = futures[i].path) =>
                futures[i].path \in Range(downloaded_files)

-----------------------------------------------------------------------------
(* download_image and _is_child_friendly_image, one call (SpecValidate) *)

\* Payloads a server can send: the leading bytes, the body behind them and
\* the Content-Type header it claims.  "other" is any leading bytes the
\* sniff does not know: garbage, or a format PIL reads (GIF, WebP, BMP).
Payloads ==
    {p \in [magic : {"png", "jpg", "svg", "xml", "other"},
            body  : {"big", "thumb", "huge", "truncated", "corrupt", "empty"},
            ctype : {"image/png", "image/jpeg", "application/octet-stream"}] :
        /\ p.magic \in {"svg", "xml"} => p.body = "corrupt"
        /\ p.body = "empty" => p.magic = "other"}

ValResponses ==
    {[status |-> "neterr", magic |-> "", body |-> "", ctype |-> ""]}
      \cup {[status |-> "ok", magic |-> p.magic, body |-> p.body, ctype |-> p.ctype] :
                p \in Payloads}

\* Metadata texts of a candidate.  "null" is a JSON null kept by
\* dict.get(key, ''), "missing" an absent key.
Descriptions == {"null", "missing", "", "Red apple", "A Dark forest"}
Authors == {"null", "", "Jane Doe"}

\* str.lower()
Lower(text) ==
    CASE text = "Red apple"     -> "red apple"
      [] text = "A Dark forest" -> "a dark forest"
      [] text = "Jane Doe"      -> "jane doe"
      [] OTHER                  -> text

\* any(keyword in text for keyword in inappropriate_keywords): substring
\* search, case-sensitive, for the lower-case keywords ('dark', ...).
HasInappropriateKeyword(text) == text \in {"a dark forest"}

\* image_info.get(key, ''): the default only for an absent key.
InfoGet(text) == IF text = "missing" THEN "" ELSE text

\* UnifiedImageDownloader._is_child_friendly_image(image_path, image_info)
\* for the body stored at image_path: the value returned, and whether the
\* except branch produced it.
IsChildFriendlyImage(body, info) ==
    LET description == InfoGet(info.description)
        author      == InfoGet(info.author)
    IN  IF description = "null" \/ author = "null"
        THEN [ok |-> TRUE, error |-> TRUE]     \* None.lower() raises
        ELSE IF HasInappropriateKeyword(Lower(description))
                  \/ HasInappropriateKeyword(Lower(author))
        THEN [ok |-> FALSE, error |-> FALSE]
        ELSE IF ~Decodable(body)
        THEN [ok |-> TRUE, error |-> TRUE]     \* Image.open raises
        ELSE IF ImageOf(body).w < 200 \/ ImageOf(body).h < 200
        THEN [ok |-> FALSE, error |-> FALSE]
        ELSE [ok |-> TRUE, error |-> FALSE]

\* img.verify() after Image.open: a readable header is enough for it.
VerifyOk(body) == Decodable(body)

Rejected(err) == [accepted |-> FALSE, ext |-> "", file |-> FALSE, raised |-> FALSE, error |-> err]

\* UnifiedImageDownloader.download_image(image_info, output_path)
UnifiedDownloadImage(resp, info, save_ext) ==
    IF resp.status = "neterr" THEN Rejected(TRUE)
    ELSE IF ImageOf(resp.body).bytes > 10 * 1024 * 1024 THEN Rejected(FALSE)
    ELSE IF resp.ctype \notin {"image/jpeg", "image/png", "image/jpg"} THEN Rejected(FALSE)
    ELSE IF ~VerifyOk(resp.body) THEN Rejected(TRUE)
    ELSE LET cf == IsChildFriendlyImage(resp.body, info)
         IN  IF ~cf.ok THEN Rejected(FALSE)
             ELSE [accepted |-> TRUE, ext |-> save_ext, file |-> TRUE,
                   raised |-> FALSE, error |-> cf.error]

\* MultiSourceImageDownloader.download_image, as a call record.
MultiDownloadImage(resp, save_ext) ==
    LET r == MSDownloadImage(resp, [NoImage EXCEPT !.ext = save_ext])
    IN  IF r.success
        THEN [accepted |-> TRUE, ext |-> r.path.ext, file |-> TRUE,
              raised |-> FALSE, error |-> FALSE]
        ELSE Rejected(resp.status = "neterr")

ValInit ==
    /\ ElementIdle
    /\ SelectIdle
    /\ SharedIdle
    /\ TermIdle
    /\ ThemeIdle
    /\ AdapterIdle
    /\ vcall \in [cls : {"multi", "unified"}, resp : ValResponses,
                  info : [description : Descriptions, author : Authors],
                  save_ext : {"jpg", "png"}]
    /\ vres = Rejected(FALSE)
    /\ vpc = "call"

DownloadImageCall ==
    /\ vpc = "call"
    /\ vres' = IF vcall.cls = "multi"
               THEN MultiDownloadImage(vcall.resp, vcall.save_ext)
               ELSE UnifiedDownloadImage(vcall.resp, vcall.info, vcall.save_ext)
    /\ vpc' = "done"
    /\ UNCHANGED <<notVal, vcall>>

NextValidate == DownloadImageCall

SpecValidate == ValInit /\ [][NextValidate]_vars

\* The canonical extension of a sniffed raster format.
CanonicalExt(magic) == IF magic = "png" THEN "png" ELSE "jpg"

\* Nothing but the format speaks against the payload: it arrived, it is a
\* decodable image of at least 200x200 under 10 MB with clean metadata.
OtherwiseAcceptable(c) ==
    /\ c.resp.status = "ok"
    /\ c.resp.body = "big"
    /\ c.info.description \in {"", "Red apple"}
    /\ c.info.author \in {"", "Jane Doe"}

\* C9: the format decision rests on the leading bytes alone: a payload that
\* starts with the PNG or JPEG magic number is accepted and stored under
\* .png / .jpg whatever the save path's extension and the Content-Type; one
\* that starts with '<svg', '<?xml' or an unknown magic number is rejected.
C9_FormatDecidedByLeadingBytes ==
    vpc = "done" =>
        /\ (OtherwiseAcceptable(vcall) /\ vcall.resp.magic \in {"png", "jpg"})
              => (vres.accepted /\ vres.ext = CanonicalExt(vcall.resp.magic))
        /\ (vcall.resp.status = "ok" /\ vcall.resp.magic \in {"svg", "xml", "other"})
              => ~vres.accepted

\* C10: validation never raises, and a call in which an internal error
\* occurred rejects the candidate.
C10_InternalErrorRejects ==
    (vpc = "done" /\ vcall.cls = "unified") =>
        (~vres.raised /\ (vres.error => ~vres.accepted))

\* C11: no candidate UnifiedImageDownloader.download_image accepts has a
\* decoded width or height below 200 pixels, whatever its metadata record.
C11_AcceptedAtLeast200px ==
    (vpc = "done" /\ vcall.cls = "unified" /\ vres.accepted) =>
        (ImageOf(vcall.resp.body).w >= 200 /\ ImageOf(vcall.resp.body).h >= 200)

\* C12: no candidate UnifiedImageDownloader.download_image accepts has a
\* blocklisted term in its lower-cased description or author.
C12_AcceptedHasNoBlockedTerm ==
    (vpc = "done" /\ vcall.cls = "unified" /\ vres.accepted) =>
        /\ ~HasInappropriateKeyword(Lower(InfoGet(vcall.info.description)))
        /\ ~HasInappropriateKeyword(Lower(InfoGet(vcall.info.author)))

\* C26: a payload of zero bytes or of more than 10 MB is never accepted by
\* download_image, and no file for it stays at the output path.
C26_SizeBoundsRejected ==
    (/\ vpc = "done"
     /\ vcall.resp.status = "ok"
     /\ \/ ImageOf(vcall.resp.body).bytes = 0
        \/ ImageOf(vcall.resp.body).bytes > 10 * 1024 * 1024) =>
        (~vres.accepted /\ ~vres.file)

-----------------------------------------------------------------------------
(* The source adapters, one search call (SpecAdapter) *)

\* UnifiedImageDownloader.download_from_unsplash / download_from_pexels /
\* download_from_pixabay: as the keyed adapters above, but a result without
\* its url is skipped and the others are returned.
UnifiedKeyedAdapter(source, avail, outcome) ==
    IF source \notin avail THEN Returned(<<>>)
    ELSE IF outcome.kind \in {"timeout", "http_error", "bad_json"} THEN Returned(<<>>)
    ELSE IF outcome.kind = "no_key" THEN Returned(<<>>)
    ELSE IF outcome.kind = "incomplete"
        THEN Returned(Candidates(source, Max2(outcome.n - 1, 0)))
    ELSE Returned(Candidates(source, outcome.n))

\* UnifiedImageDownloader.download_from_wikipedia(query, count): the whole
\* body is in one try; results[:count].
UnifiedWikipediaAdapter(outcome, count) ==
    IF outcome.kind \in {"timeout", "http_error", "bad_json"} THEN Returned(<<>>)
    ELSE IF outcome.kind = "no_key" THEN Returned(<<>>)
    ELSE IF outcome.kind = "incomplete" THEN Returned(<<>>)
    ELSE Returned(Candidates("wikipedia", Min2(outcome.n, count)))

\* WikipediaImageDownloaderOptimized.get_article_images(article_title,
\* count): no try around the requests, raise_for_status, response.json() and
\* next(iter(pages.values())).
GetArticleImages(outcome, count) ==
    IF outcome.kind \in {"timeout", "http_error", "bad_json"} THEN Raised
    ELSE IF outcome.kind = "no_key" THEN Raised       \* StopIteration
    ELSE IF outcome.n = 0 THEN Returned(<<>>)
    ELSE IF outcome.kind = "incomplete" THEN Raised   \* KeyError on img['title']
    ELSE Returned(Candidates("wikipedia", Min2(outcome.n, count)))

\* The authenticated API answers with results only.
WikimediaAuthOnly(avail, auth, std, count) ==
    IF "wikimedia" \in avail /\ auth.kind \in {"ok", "incomplete"}
    THEN [items |-> Candidates("wikimedia", Min2(auth.n, count)), requests |-> <<"auth">>]
    ELSE [items |-> <<>>, requests |-> <<"auth">>]

\* UnifiedImageDownloader.download_from_wikimedia(query, count): with a key
\* the authenticated API is asked first, inside a try of its own; a page
\* without its thumbnail is skipped; `if results: return results[:count]`.
\* Otherwise the standard MediaWiki API is asked, inside the outer try: a
\* result without 'title' raises KeyError and the call returns [].
UnifiedWikimediaAdapter(avail, auth, std, count) ==
    LET asked     == "wikimedia" \in avail
        usable    == IF auth.kind = "ok" THEN auth.n
                     ELSE IF auth.kind = "incomplete" THEN auth.n - 1
                     ELSE 0
        authItems == IF asked THEN Candidates("wikimedia", Min2(usable, count)) ELSE <<>>
        stdItems  == IF std.kind = "ok"
                     THEN Candidates("wikimedia", Min2(std.n, count))
                     ELSE <<>>
    IN  IF authItems # <<>>
        THEN [items |-> authItems, requests |-> <<"auth">>]
        ELSE [items |-> stdItems,
              requests |-> (IF asked THEN <<"auth">> ELSE <<>>) \o <<"standard">>]

Adapters ==
    {"multi.unsplash", "multi.pexels", "multi.wikipedia", "multi.wikimedia",
     "unified.unsplash", "unified.pexels", "unified.pixabay", "unified.wikipedia",
     "unified.wikimedia", "optimized.get_article_images"}

AdapterSource(adapter) ==
    CASE adapter \in {"multi.unsplash", "unified.unsplash"} -> "unsplash"
      [] adapter \in {"multi.pexels", "unified.pexels"}     -> "pexels"
      [] adapter = "unified.pixabay"                        -> "pixabay"
      [] adapter \in {"multi.wikimedia", "unified.wikimedia"} -> "wikimedia"
      [] OTHER                                              -> "wikipedia"

AdapterCallResult(c) ==
    CASE c.adapter \in {"multi.unsplash", "multi.pexels"}
            -> KeyedAdapter(AdapterSource(c.adapter), c.avail, c.outcome)
      [] c.adapter = "multi.wikipedia" -> WikipediaAdapter(c.outcome)
      [] c.adapter = "multi.wikimedia" -> WikimediaAdapter(c.outcome, c.count)
      [] c.adapter \in {"unified.unsplash", "unified.pexels", "unified.pixabay"}
            -> UnifiedKeyedAdapter(AdapterSource(c.adapter), c.avail, c.outcome)
      [] c.adapter = "unified.wikipedia" -> UnifiedWikipediaAdapter(c.outcome, c.count)
      [] c.adapter = "unified.wikimedia"
            -> Returned(UnifiedWikimediaAdapter(c.avail, c.outcome, c.fallback, c.count).items)
      [] OTHER -> GetArticleImages(c.outcome, c.count)

\* The search requests a call sent, for the adapter with two APIs.
AdapterRequests(c) ==
    IF c.adapter = "unified.wikimedia"
    THEN UnifiedWikimediaAdapter(c.avail, c.outcome, c.fallback, c.count).requests
    ELSE <<>>

\* What a provider reports about an image: its size in pixels, its author
\* and its description, each of which may be absent from the answer, and its
\* title.
Reported(value) == [has |-> TRUE, val |-> value]
Absent == [has |-> FALSE]

FullItem ==
    [width |-> Reported(1000), height |-> Reported(900), author |-> Reported("Jane Doe"),
     description |-> Reported("Red apple"), title |-> "File:Eye.jpg"]

ProviderItems ==
    {[width |-> d.w, height |-> d.h, author |-> a, description |-> t, title |-> "File:Eye.jpg"] :
        d \in {[w |-> Reported(1000), h |-> Reported(900)], [w |-> Absent, h |-> Absent]},
        a \in {Reported("Jane Doe"), Absent}, t \in {Reported("Red apple"), Absent}}

\* dict.get(key, default)
GetOr(field, default) == IF field.has THEN field.val ELSE default

\* The width, height, description and author an adapter of
\* UnifiedImageDownloader puts in the candidate it builds from an item.
\* (The adapters of the other classes read the fields with photo['width']:
\* an item without them is the "incomplete" answer.)
CandidateMeta(adapter, item, requests) ==
    CASE adapter \in {"unified.unsplash", "unified.pexels", "unified.pixabay"}
            -> [width |-> GetOr(item.width, 0), height |-> GetOr(item.height, 0),
                description |-> GetOr(item.description, ""),
                author |-> GetOr(item.author, "")]
      [] adapter = "unified.wikipedia"
            -> [width |-> 640, height |-> 640,
                description |-> "Image from Eye", author |-> "Wikipedia"]
      [] adapter = "unified.wikimedia" /\ requests = <<"auth">>
            -> [width |-> GetOr(item.width, 0), height |-> GetOr(item.height, 0),
                description |-> item.title, author |-> "Wikimedia Commons"]
      [] adapter = "unified.wikimedia" /\ requests # <<"auth">>
            -> [width |-> 640, height |-> 640,
                description |-> "Image from Wikimedia Commons: File:Eye.jpg",
                author |-> "Wikimedia Commons"]
      [] OTHER
            -> [width |-> item.width.val, height |-> item.height.val,
                description |-> item.description.val, author |-> item.author.val]

\* Largest number of results a provider returns to one search.
MaxResults == 4

\* The answers of a provider in the model of one call.
AdapterOutcomes ==
    {Answer(k, 0) : k \in ErrorKinds}
      \cup {Answer(k, n) : k \in {"ok", "incomplete"}, n \in 0..MaxResults}

AdapterInit ==
    /\ ElementIdle
    /\ SelectIdle
    /\ SharedIdle
    /\ TermIdle
    /\ ThemeIdle
    /\ ValIdle
    /\ acall \in [adapter  : Adapters,
                  avail    : AvailableSourceSets,
                  outcome  : AdapterOutcomes,
                  fallback : AdapterOutcomes,
                  reported : ProviderItems,
                  count    : 1..3]
    /\ (acall.outcome.kind = "incomplete" => acall.outcome.n >= 1)
    /\ (acall.fallback.kind = "incomplete" => acall.fallback.n >= 1)
    /\ (acall.adapter # "unified.wikimedia" => acall.fallback = Answer("ok", 0))
    /\ (acall.adapter \notin {"unified.unsplash", "unified.pexels", "unified.pixabay",
                              "unified.wikipedia", "unified.wikimedia"}
            => acall.reported = FullItem)
    /\ ares = [raised |-> FALSE, items |-> <<>>, requests |-> <<>>, meta |-> <<>>]
    /\ apc = "call"

AdapterCall ==
    /\ apc = "call"
    /\ ares' = LET r == AdapterCallResult(acall)
               IN  [raised   |-> r.raised,
                    items    |-> r.items,
                    requests |-> AdapterRequests(acall),
                    meta     |-> [i \in 1..Len(r.items) |->
                                    CandidateMeta(acall.adapter, acall.reported,
                                                  AdapterRequests(acall))]]
    /\ apc' = "done"
    /\ UNCHANGED <<notAdapter, acall>>

NextAdapter == AdapterCall

SpecAdapter == AdapterInit /\ [][NextAdapter]_vars

\* C4: every adapter search returns a list and never raises, whatever the
\* provider does; without credentials and on an error the list is empty.
C4_AdapterNeverRaises ==
    apc = "done" =>
        /\ ~ares.raised
        /\ (acall.outcome.kind \in ErrorKinds /\ acall.fallback.kind # "ok"
               => ares.items = <<>>)

\* The adapters of UnifiedImageDownloader.
UnifiedAdapters ==
    {"unified.unsplash", "unified.pexels", "unified.pixabay", "unified.wikipedia",
     "unified.wikimedia"}

\* C27: in every candidate of an adapter, width, height, author and
\* description are the value the provider reported or, when it reported
\* none, zero / the empty string.
C27_MetadataReportedOrZero ==
    (apc = "done" /\ acall.adapter \in UnifiedAdapters) =>
        \A i \in 1..Len(ares.meta) :
            /\ ares.meta[i].width = GetOr(acall.reported.width, 0)
            /\ ares.meta[i].height = GetOr(acall.reported.height, 0)
            /\ ares.meta[i].author = GetOr(acall.reported.author, "")
            /\ ares.meta[i].description = GetOr(acall.reported.description, "")

\* The results of the authenticated API the adapter can use: those with
\* their thumbnail, when the key is set and the request succeeded.
AuthUsable ==
    IF "wikimedia" \notin acall.avail THEN 0
    ELSE IF acall.outcome.kind = "ok" THEN acall.outcome.n
    ELSE IF acall.outcome.kind = "incomplete" THEN acall.outcome.n - 1
    ELSE 0

\* C28: download_from_wikimedia asks the authenticated API first and the
\* standard API only when the first was unavailable, failed or gave nothing
\* usable; results of the authenticated API are returned with no second
\* request.  The list has at most count candidates and the call never
\* raises.
C28_AuthenticatedFirstThenStandard ==
    (apc = "done" /\ acall.adapter = "unified.wikimedia") =>
        /\ ~ares.raised
        /\ Len(ares.items) <= acall.count
        /\ ares.requests \in {<<"auth">>, <<"auth", "standard">>, <<"standard">>}
        /\ ("wikimedia" \in acall.avail <=> ares.requests[1] = "auth")
        /\ (AuthUsable >= 1 <=> ares.requests = <<"auth">>)
        /\ (AuthUsable >= 1 => Len(ares.items) = Min2(AuthUsable, acall.count))
        /\ (AuthUsable = 0 /\ acall.fallback.kind # "ok" => ares.items = <<>>)

\* C28 witness: the authenticated API failed and the candidates returned
\* come from the standard API.
C28_FallbackWitness ==
    /\ apc = "done"
    /\ acall.adapter = "unified.wikimedia"
    /\ "wikimedia" \in acall.avail
    /\ acall.outcome.kind = "http_error"
    /\ ares.requests = <<"auth", "standard">>
    /\ Len(ares.items) = acall.count

-----------------------------------------------------------------------------
(* convertir_images.convertir_images_pour_docx *)

\* filename.replace('.png', '.jpg')
Converted(path) == [path EXCEPT !.ext = "jpg"]

\* The files whose name the conversion records as renamed: a .png that
\* Image.open could read (the entry is made before img.save).
ConversionsOf(d) == {f.path : f \in {g \in d : g.path.ext = "png" /\ Decodable(g.body)}}

\* The directory afterwards: a .png whose pixels decode is saved as .jpg and
\* removed; a file that fails to open or to decode stays as it is.
ConvertedDir(d) ==
    LET renamed == {f \in d : f.path.ext = "png" /\ Loadable(f.body)}
    IN  {f \in d : f \notin renamed /\ \A g \in renamed : f.path # Converted(g.path)}
          \cup {[path |-> Converted(f.path), body |-> f.body] : f \in renamed}

-----------------------------------------------------------------------------
(* scorer_images_clip: find_images_for_prefix, score_batch, selection *)

\* The pieces of a nom_francais that its '_' separate.
NameWords(name) == IF name = "main_gauche" THEN <<"main", "gauche">> ELSE <<name>>

\* str(i + 1)
IdxPiece(idx) == <<"1", "2", "3", "4", "5", "6", "7", "8", "9", "10">>[idx]

\* f"{nom_francais}_{source}_{i+1}.jpg" with the extension the file ended up
\* with, as the pieces its '_' and its '.' separate: two file names are the
\* same string exactly when their pieces are the same.
FileString(path) ==
    NameWords(path.name) \o <<path.source, IdxPiece(path.idx), path.ext>>

\* file.startswith(nom_francais), and the match of the glob f"{prefix}_*":
\* the file name begins with the pieces of the term's name.
FileStartsWith(path, nom) ==
    LET w == NameWords(nom)
    IN  SubSeq(FileString(path), 1, Len(w)) = w

\* Alphabetical rank of a piece of a file name that is a word.
WordAlpha(word) ==
    CASE word = "gauche"    -> 1
      [] word = "main"      -> 2
      [] word = "nez"       -> 3
      [] word = "oeil"      -> 4
      [] word = "pexels"    -> 5
      [] word = "pied"      -> 6
      [] word = "pixabay"   -> 7
      [] word = "unsplash"  -> 8
      [] word = "wikimedia" -> 9
      [] word = "wikipedia" -> 10
      [] OTHER              -> 11

\* Alphabetical rank of the source part of a file name.
SourceAlpha(source) ==
    CASE source = "pexels"    -> 1
      [] source = "pixabay"   -> 2
      [] source = "unsplash"  -> 3
      [] source = "wikimedia" -> 4
      [] source = "wikipedia" -> 5
      [] OTHER                -> 6

\* Alphabetical rank of an extension.
ExtAlpha(ext) == IF ext = "jpeg" THEN 1 ELSE IF ext = "jpg" THEN 2 ELSE 3

\* Decimal digits of an index below 100, followed by the '.' of the
\* extension, which sorts before every digit.
Digits(n) == IF n < 10 THEN <<n, -1>> ELSE <<n \div 10, n % 10>>

\* String order of "<idx>." against "<idx>."
IdxBefore(a, b) ==
    \/ Digits(a)[1] < Digits(b)[1]
    \/ Digits(a)[1] = Digits(b)[1] /\ Digits(a)[2] < Digits(b)[2]

\* String order of two file names: for files of the same term the source,
\* then the index, then the extension; otherwise the first word in which the
\* names differ.
NameBefore(p, q) ==
    IF p.name = q.name
    THEN \/ SourceAlpha(p.source) < SourceAlpha(q.source)
         \/ p.source = q.source /\ IdxBefore(p.idx, q.idx)
         \/ p.source = q.source /\ p.idx = q.idx /\ ExtAlpha(p.ext) < ExtAlpha(q.ext)
    ELSE LET a == NameWords(p.name) \o <<p.source>>
             b == NameWords(q.name) \o <<q.source>>
             k == CHOOSE i \in 1..Min2(Len(a), Len(b)) :
                      a[i] # b[i] /\ \A j \in 1..(i - 1) : a[j] = b[j]
         IN  WordAlpha(a[k]) < WordAlpha(b[k])

\* sorted(image_paths)
RECURSIVE SortedPaths(_)
SortedPaths(S) ==
    IF S = {} THEN <<>>
    ELSE LET first == CHOOSE p \in S : \A q \in S \ {p} : NameBefore(p, q)
         IN  <<first>> \o SortedPaths(S \ {first})

\* glob of {prefix}_*.jpg, .jpeg and .png in the photos directory, sorted.
find_images_for_prefix(d, prefix) ==
    SortedPaths({f.path : f \in {g \in d : FileStartsWith(g.path, prefix)
                                           /\ g.path.ext \in {"jpg", "jpeg", "png"}}})

\* The prompt variants: "professional photo of {q}", "high quality image of
\* {q}", "clean {q}", "clear {q}", "good {q}" and the query itself.
Prompts == {"professional", "high_quality", "clean", "clear", "good", "generic"}

\* text_queries and weights of score_image, the weights in tenths.
ScoreImageWeights ==
    [professional |-> 13, high_quality |-> 12, clean |-> 11, clear |-> 10,
     good |-> 10, generic |-> 9]

\* text_queries and weights of _score_batch_optimized, the weights in tenths.
BatchWeights ==
    [professional |-> 13, high_quality |-> 12, clear |-> 11, generic |-> 10]

\* logits_per_image of one image: the similarity the CLIP model gives the
\* image for each prompt; it depends on the image and the prompt only.
FlatLogits == [p \in Prompts |-> 20]
LogitProfiles ==
    {FlatLogits,
     [FlatLogits EXCEPT !["clean"] = 30],
     [FlatLogits EXCEPT !["professional"] = 24]}

\* torch.max(logits * weights) over the prompts of a scorer.  The score is
\* 1 / (1 + exp(-max_score / 10)), which grows with max_score and is above
\* 0.0: the model keeps max_score (in tenths) as the score.
WeightedMax(logits, weights) ==
    LET vals == {logits[p] * weights[p] : p \in DOMAIN weights}
    IN  CHOOSE v \in vals : \A w \in vals : w <= v

\* What the CLIP model does for the images of one term: whether the batched
\* inference raises, whether the inference of score_image raises, and the
\* logits of each image.
Inferences(paths) ==
    [fails : BOOLEAN, single_fails : BOOLEAN, logits : [Range(paths) -> LogitProfiles]]

\* score_image: 0.0 when loading the image or the inference raises.
score_image(d, path, inf) ==
    IF Loadable(BodyAt(d, path)) /\ ~inf.single_fails
    THEN WeightedMax(inf.logits[path], ScoreImageWeights) ELSE 0

\* The result list built from position i on: in the batched pass the paths
\* that exist and load, with their batched score; in the fallback pass the
\* paths that exist, with their score_image score.
RECURSIVE Scored(_, _, _, _, _, _)
Scored(d, paths, inf, i, batched, acc) ==
    IF i > Len(paths) THEN acc
    ELSE LET p == paths[i]
             exists == \E f \in d : f.path = p
         IN  IF batched
             THEN Scored(d, paths, inf, i + 1, batched,
                         IF exists /\ Loadable(BodyAt(d, p))
                         THEN Append(acc, [path |-> p,
                                           score |-> WeightedMax(inf.logits[p], BatchWeights)])
                         ELSE acc)
             ELSE Scored(d, paths, inf, i + 1, batched,
                         IF exists
                         THEN Append(acc, [path |-> p, score |-> score_image(d, p, inf)])
                         ELSE acc)

\* A scorer without the fallback to score_image.
BatchedScoresOnly(d, paths, inf) ==
    IF inf.fails THEN <<>> ELSE Scored(d, paths, inf, 1, TRUE, <<>>)

\* _score_batch_optimized: the images that load are scored together; when
\* none loads the result is []; when the batched inference raises, every
\* existing path is scored by score_image.
ScoreBatchOptimized(d, paths, inf) ==
    LET loaded == Scored(d, paths, inf, 1, TRUE, <<>>)
    IN  IF loaded = <<>> THEN <<>>
        ELSE IF inf.fails THEN Scored(d, paths, inf, 1, FALSE, <<>>)
        ELSE loaded

\* score_batch: batches of 4, results concatenated.
RECURSIVE score_batch(_, _, _)
score_batch(d, paths, inf) ==
    IF Len(paths) <= 4 THEN ScoreBatchOptimized(d, paths, inf)
    ELSE ScoreBatchOptimized(d, SubSeq(paths, 1, 4), inf)
           \o score_batch(d, SubSeq(paths, 5, Len(paths)), inf)

\* scored_images.sort(key=score, reverse=True)[0]: the sort is stable, so the
\* first entry with the highest score.
FirstOfSorted(scored) ==
    LET i == CHOOSE j \in 1..Len(scored) :
                 /\ \A k \in 1..Len(scored) : scored[k].score <= scored[j].score
                 /\ \A k \in 1..(j - 1) : scored[k].score < scored[j].score
    IN  scored[i].path

\* One round of the element loop of select_best_images_for_theme: the entry
\* appended to elements, or nothing after a `continue`.
ClipEntry(d, nom_francais, inf) ==
    LET image_paths == find_images_for_prefix(d, nom_francais)
        scored_images == score_batch(d, image_paths, inf)
    IN  IF image_paths = <<>> THEN <<>>
        ELSE IF scored_images = <<>> THEN <<>>
        ELSE <<[nom_francais |-> nom_francais,
                image_selectionnee |-> FirstOfSorted(scored_images)]>>

-----------------------------------------------------------------------------
(* A theme run (SpecTheme) *)

\* nom_francais of the elements a config.json can list.
ThemeNames == <<"oeil", "nez", "main", "pied">>

\* A config.json in which the name of one element begins with the name of
\* another.
PrefixNames == <<"main", "main_gauche", "nez", "pied">>

ThemeConfigs == {ThemeNames, PrefixNames}

\* One candidate of a term and what its fetch does; `late` when the
\* collector's result(timeout=30) expires before download_image returns.
Cand(source, resp, late) == [source |-> source, resp |-> resp, late |-> late]

PngBig     == [status |-> "ok", magic |-> "png", body |-> "big"]
PngCorrupt == [status |-> "ok", magic |-> "png", body |-> "corrupt"]
PngTruncated == [status |-> "ok", magic |-> "png", body |-> "truncated"]
JpgSmall   == [status |-> "ok", magic |-> "jpg", body |-> "small"]
NetErr     == [status |-> "neterr", magic |-> "", body |-> ""]

\* The candidate lists of a term in the model of a theme, each with the
\* responses its fetches get.
TermRuns ==
    {<<>>,
     <<Cand("unsplash", NetErr, FALSE)>>,
     <<Cand("unsplash", PngBig, FALSE)>>,
     <<Cand("unsplash", PngBig, TRUE)>>,
     <<Cand("wikipedia", PngCorrupt, FALSE)>>,
     <<Cand("pexels", PngTruncated, FALSE)>>,
     <<Cand("unsplash", JpgSmall, FALSE), Cand("wikipedia", PngBig, FALSE)>>}

\* An output path that leaves out the name of the term.
SavePathWithoutName(name, run, i) ==
    [name |-> "image", source |-> run[i].source, idx |-> i, ext |-> "jpg"]

\* output_path = os.path.join(output_dir, f"{french_name}_{source}_{i+1}.jpg")
TermSavePath(name, run, i) ==
    [name |-> name, source |-> run[i].source, idx |-> i, ext |-> "jpg"]

\* download_image of candidate i of a term.
FetchOf(name, run, i) ==
    MSDownloadImage(run[i].resp, TermSavePath(name, run, i))

\* The files the fetches of a term write.
FilesOf(name, run) ==
    {[path |-> FetchOf(name, run, i).path, body |-> run[i].resp.body] :
        i \in {j \in 1..Len(run) : FetchOf(name, run, j).success}}

\* downloaded_files: the successful fetches the collector did not time out
\* on, in submission order.
RECURSIVE DownloadedFiles(_, _, _)
DownloadedFiles(name, run, i) ==
    IF i > Len(run) THEN <<>>
    ELSE (IF FetchOf(name, run, i).success /\ ~run[i].late
          THEN <<FetchOf(name, run, i).path>> ELSE <<>>)
           \o DownloadedFiles(name, run, i + 1)

\* download_10_images_for_word for a whole term: best_image.
BestOfTerm(name, run) ==
    select_best_image(FilesOf(name, run), DownloadedFiles(name, run, 1))

\* results.get(french_name): None when the key is absent.
ResultsGet(res, french) ==
    IF \E k \in 1..Len(res) : res[k].french = french
    THEN res[CHOOSE k \in 1..Len(res) : res[k].french = french].file
    ELSE NoImage

\* results[french_name] = file: the value of an existing key is replaced
\* where it is, a new key is inserted last.
ResultsPut(res, french, file) ==
    IF \E k \in 1..Len(res) : res[k].french = french
    THEN [k \in 1..Len(res) |-> IF res[k].french = french
                                 THEN [french |-> french, file |-> file] ELSE res[k]]
    ELSE Append(res, [french |-> french, file |-> file])

\* A collector that lets the worker's exception out of the loop.
CollectUncaught(res, french, w) ==
    [raised |-> w.raised,
     results |-> IF ~w.raised /\ w.best # NoImage THEN ResultsPut(res, french, w.best) ELSE res]

\* The body of the as_completed loop of download_multiple_words_parallel:
\* future.result() inside try / except Exception; the result is recorded
\* only `if best_image`.
CollectOutcome(res, french, w) ==
    [raised |-> FALSE,
     results |-> IF ~w.raised /\ w.best # NoImage THEN ResultsPut(res, french, w.best) ELSE res]

\* A writer that lists a term without image under an empty file name.
EntryForEveryTerm(french, res, conv) ==
    LET image_file == ResultsGet(res, french)
    IN  <<[nom_francais |-> french,
           image_selectionnee |-> IF image_file \in conv THEN Converted(image_file)
                                  ELSE image_file]>>

\* One round of the element loop of download_images_for_theme: the entry
\* appended `if image_file`, nothing otherwise.
ThemeEntry(french, res, conv) ==
    LET image_file == ResultsGet(res, french)
    IN  IF image_file # NoImage
        THEN <<[nom_francais |-> french,
                image_selectionnee |-> IF image_file \in conv THEN Converted(image_file)
                                       ELSE image_file]>>
        ELSE <<>>

\* A writer that loops over the items of results.
ResultsOrder(elems, res) == [k \in 1..Len(res) |-> res[k].french]

\* for element in config['elements']: the names the writer loops over.
ConfigOrder(elems, res) == elems

RECURSIVE ThemeElements(_, _, _, _)
ThemeElements(elems, res, conv, i) ==
    IF i > Len(elems) THEN <<>>
    ELSE ThemeEntry(elems[i], res, conv) \o ThemeElements(elems, res, conv, i + 1)

\* The fetches of a candidate in UnifiedImageDownloader.download_for_element.
UnifiedFetches ==
    {[status |-> "neterr", magic |-> "", body |-> "", ctype |-> ""],
     [status |-> "ok", magic |-> "png", body |-> "big", ctype |-> "image/png"],
     [status |-> "ok", magic |-> "jpg", body |-> "truncated", ctype |-> "image/jpeg"]}

CleanInfo == [description |-> "Red apple", author |-> "Jane Doe"]

\* The candidate lists of an element in the model of a theme.
ElementRuns ==
    {<<>>} \cup {<<[source |-> "unsplash", resp |-> a], [source |-> "pexels", resp |-> b]>> :
                    a \in UnifiedFetches, b \in UnifiedFetches}

\* The files download_for_element leaves in the photos directory: candidate i
\* under {nom_francais}_{source}_{i+1}.jpg when download_image accepts it.
ElementFiles(nom_francais, run) ==
    {[path |-> [name |-> nom_francais, source |-> run[i].source, idx |-> i, ext |-> "jpg"],
      body |-> run[i].resp.body] :
        i \in {j \in 1..Len(run) : UnifiedDownloadImage(run[j].resp, CleanInfo, "jpg").accepted}}

\* os.listdir: the names of a directory in arbitrary order.
RECURSIVE ListDirOrders(_)
ListDirOrders(S) ==
    IF S = {} THEN {<<>>}
    ELSE UNION {{<<x>> \o l : l \in ListDirOrders(S \ {x})} : x \in S}

\* One round of the element loop of create_basic_selection over a listing:
\* the first file that starts with nom_francais and ends with .jpg.
RECURSIVE BasicEntry(_, _, _)
BasicEntry(listing, nom_francais, i) ==
    IF i > Len(listing) THEN <<>>
    ELSE IF FileStartsWith(listing[i], nom_francais) /\ listing[i].ext = "jpg"
         THEN <<[nom_francais |-> nom_francais, image_selectionnee |-> listing[i]]>>
         ELSE BasicEntry(listing, nom_francais, i + 1)

DirNames(d) == {f.path : f \in d}

ThemeInit ==
    /\ ElementIdle
    /\ SelectIdle
    /\ TermIdle
    /\ ValIdle
    /\ AdapterIdle
    /\ mode \in {"heuristic", "clip", "basic"}
    /\ elements \in {Take(names, n) : names \in ThemeConfigs, n \in 0..MaxTerms}
    /\ max_workers \in 1..MaxWorkers
    /\ disk = {}
    /\ tpc = IF mode = "heuristic" THEN "start" ELSE "download"
    /\ workers = <<>>
    /\ results = <<>>
    /\ conversions = {}
    /\ manifest = <<>>
    /\ eidx = 1

\* download_multiple_words_parallel up to the end of the submission loop:
\* ThreadPoolExecutor(max_workers=min(self.max_workers, len(words_data)))
\* raises ValueError for 0 workers; otherwise one future per term.
SubmitTerms ==
    /\ tpc = "start"
    /\ IF Min2(max_workers, Len(elements)) <= 0
       THEN /\ tpc' = "raised"
            /\ workers' = workers
       ELSE /\ tpc' = "pool"
            /\ workers' = [t \in 1..Len(elements) |->
                              [state |-> "queued", raised |-> FALSE, best |-> NoImage,
                               run |-> <<>>, started |-> 0, fetching |-> 0]]
    /\ UNCHANGED <<notTheme, max_workers, disk, mode, elements, results, conversions,
                   manifest, eidx>>

TermsRunning == {t \in 1..Len(workers) : workers[t].state = "running"}
TermsQueued  == {t \in 1..Len(workers) : workers[t].state = "queued"}

\* A term pool that starts a thread for every submitted term.
TermPoolStartsEveryTerm == TRUE

\* ThreadPoolExecutor(max_workers=min(self.max_workers, len(words_data))):
\* a queued term starts only on an idle worker thread.
TermPoolHasIdleWorker == Cardinality(TermsRunning) < Min2(max_workers, Len(elements))

\* A worker thread of the term pool takes the oldest queued term:
\* download_10_images_for_word starts; run is what the providers and the
\* fetches of the term are going to answer.
StartTermWorker(t) ==
    /\ tpc = "pool"
    /\ t \in TermsQueued
    /\ \A u \in TermsQueued : t <= u
    /\ TermPoolHasIdleWorker
    /\ \E run \in TermRuns :
          workers' = [workers EXCEPT ![t].state = "running", ![t].run = run]
    /\ UNCHANGED <<notTheme, max_workers, disk, mode, elements, tpc, results, conversions,
                   manifest, eidx>>

\* The download_image calls that run at a moment, over the terms from t on.
RECURSIVE BytesInFlight(_)
BytesInFlight(t) ==
    IF t > Len(workers) THEN 0 ELSE workers[t].fetching + BytesInFlight(t + 1)

\* A term that submits its download_image calls to the term pool, whose
\* threads the running terms occupy.
FetchWaitsOnTermPool(t) ==
    Cardinality(TermsRunning) + BytesInFlight(1) < Min2(max_workers, Len(elements))

\* with ThreadPoolExecutor(max_workers=self.max_workers) as executor: the
\* pool a term creates for its own download_image calls has an idle thread.
FetchPoolHasIdleWorker(t) == workers[t].fetching < max_workers

\* executor.submit(self.download_image, ...) of a running term, once per
\* candidate of all_images[:10]: the next call starts on an idle thread of
\* the term's own pool.  started counts the calls of the term that were
\* started, fetching those that run.
TermStartsFetch(t) ==
    /\ tpc = "pool"
    /\ t \in TermsRunning
    /\ workers[t].started < Len(workers[t].run)
    /\ FetchPoolHasIdleWorker(t)
    /\ workers' = [workers EXCEPT ![t].started = @ + 1, ![t].fetching = @ + 1]
    /\ UNCHANGED <<notTheme, max_workers, disk, mode, elements, tpc, results, conversions,
                   manifest, eidx>>

\* A download_image call of the term returns.
TermEndsFetch(t) ==
    /\ tpc = "pool"
    /\ t \in TermsRunning
    /\ workers[t].fetching > 0
    /\ workers' = [workers EXCEPT ![t].fetching = @ - 1]
    /\ UNCHANGED <<notTheme, max_workers, disk, mode, elements, tpc, results, conversions,
                   manifest, eidx>>

\* download_10_images_for_word of a term returns (downloaded_files,
\* best_image), having written its files; its pool has been left, so every
\* download_image call it submitted has run and returned.
FinishTermWorker(t) ==
    /\ tpc = "pool"
    /\ t \in TermsRunning
    /\ workers[t].started = Len(workers[t].run)
    /\ workers[t].fetching = 0
    /\ LET run == workers[t].run
       IN  /\ workers' = [workers EXCEPT ![t] =
                 [state |-> "done", raised |-> FALSE, best |-> BestOfTerm(elements[t], run),
                  run |-> <<>>, started |-> 0, fetching |-> 0]]
           /\ disk' = disk \cup FilesOf(elements[t], run)
    /\ UNCHANGED <<notTheme, max_workers, mode, elements, tpc, results, conversions,
                   manifest, eidx>>

\* download_10_images_for_word of a term ends with an exception (its pool
\* cannot start a thread, memory is exhausted, ...).
RaiseTermWorker(t) ==
    /\ tpc = "pool"
    /\ t \in TermsRunning
    /\ workers[t].fetching = 0
    /\ workers' = [workers EXCEPT ![t] = [state |-> "done", raised |-> TRUE, best |-> NoImage,
                                          run |-> <<>>, started |-> 0, fetching |-> 0]]
    /\ UNCHANGED <<notTheme, max_workers, disk, mode, elements, tpc, results, conversions,
                   manifest, eidx>>

\* as_completed yields a finished future and the loop body runs on it.
CollectTerm(t) ==
    /\ tpc = "pool"
    /\ t \in 1..Len(workers)
    /\ workers[t].state = "done"
    /\ LET out == CollectOutcome(results, elements[t], workers[t])
       IN  /\ results' = out.results
           /\ tpc' = IF out.raised THEN "raised" ELSE tpc
    /\ workers' = [workers EXCEPT ![t].state = "collected"]
    /\ UNCHANGED <<notTheme, max_workers, disk, mode, elements, conversions, manifest, eidx>>

\* UnifiedImageDownloader.download_for_theme: download_for_element of the
\* next element, run to its end.
DownloadForElement ==
    /\ tpc = "download"
    /\ eidx <= Len(elements)
    /\ \E run \in ElementRuns :
          disk' = {f \in disk : \A g \in ElementFiles(elements[eidx], run) : f.path # g.path}
                    \cup ElementFiles(elements[eidx], run)
    /\ eidx' = eidx + 1
    /\ UNCHANGED <<notTheme, max_workers, mode, elements, tpc, workers, results,
                   conversions, manifest>>

\* convertir_images_pour_docx(photos_dir), after the term pool has been left
\* or after the last download_for_element.
ConvertImages ==
    /\ \/ tpc = "pool" /\ \A t \in 1..Len(workers) : workers[t].state = "collected"
       \/ tpc = "download" /\ eidx > Len(elements)
    /\ conversions' = ConversionsOf(disk)
    /\ disk' = ConvertedDir(disk)
    /\ tpc' = IF mode = "heuristic" THEN "write" ELSE mode
    /\ eidx' = 1
    /\ UNCHANGED <<notTheme, max_workers, mode, elements, workers, results, manifest>>

\* download_images_for_theme: the final elements list and selection.json.
WriteSelection ==
    /\ tpc = "write"
    /\ manifest' = ThemeElements(ConfigOrder(elements, results), results, conversions, 1)
    /\ tpc' = "done"
    /\ UNCHANGED <<notTheme, max_workers, disk, mode, elements, workers, results,
                   conversions, eidx>>

\* select_best_images_for_theme: one round of the element loop.
ClipSelectElement ==
    /\ tpc = "clip"
    /\ eidx <= Len(elements)
    /\ \E inf \in Inferences(find_images_for_prefix(disk, elements[eidx])) :
          manifest' = manifest \o ClipEntry(disk, elements[eidx], inf)
    /\ eidx' = eidx + 1
    /\ UNCHANGED <<notTheme, max_workers, disk, mode, elements, tpc, workers, results,
                   conversions>>

\* create_basic_selection: one round of the element loop, with the listing
\* os.listdir returns for it.
BasicSelectElement ==
    /\ tpc = "basic"
    /\ eidx <= Len(elements)
    /\ \E listing \in ListDirOrders(DirNames(disk)) :
          manifest' = manifest \o BasicEntry(listing, elements[eidx], 1)
    /\ eidx' = eidx + 1
    /\ UNCHANGED <<notTheme, max_workers, disk, mode, elements, tpc, workers, results,
                   conversions>>

\* The element loop is over: selection.json is written.
WriteUnifiedSelection ==
    /\ tpc \in {"clip", "basic"}
    /\ eidx > Len(elements)
    /\ tpc' = "done"
    /\ UNCHANGED <<notTheme, max_workers, disk, mode, elements, workers, results,
                   conversions, manifest, eidx>>

\* The steps of download_multiple_words_parallel that are taken whenever
\* they can be: every step of the pools but a term ending in an exception.
TermPoolProgress ==
    \/ SubmitTerms
    \/ \E t \in 1..MaxTerms + 1 : StartTermWorker(t)
    \/ \E t \in 1..MaxTerms + 1 : TermStartsFetch(t)
    \/ \E t \in 1..MaxTerms + 1 : TermEndsFetch(t)
    \/ \E t \in 1..MaxTerms + 1 : FinishTermWorker(t)
    \/ \E t \in 1..MaxTerms + 1 : CollectTerm(t)

NextTheme ==
    \/ TermPoolProgress
    \/ \E t \in 1..MaxTerms + 1 : RaiseTermWorker(t)
    \/ DownloadForElement
    \/ ConvertImages
    \/ WriteSelection
    \/ ClipSelectElement
    \/ BasicSelectElement
    \/ WriteUnifiedSelection

SpecTheme == ThemeInit /\ [][NextTheme]_vars

\* Every thread of the pools that can take a step eventually takes one, and
\* every network call returns or times out; nothing forces a term to end in
\* an exception.
SpecThemeFair == SpecTheme /\ WF_vars(TermPoolProgress)

-----------------------------------------------------------------------------
(* Properties of a theme run (SpecTheme) *)

\* The entries selection.json has for a term.
EntriesOf(nom) ==
    LET IsOf(e) == e.nom_francais = nom
    IN  SelectSeq(manifest, IsOf)

\* The position of a term in config['elements'].
PositionOf(nom) == CHOOSE i \in 1..Len(elements) : elements[i] = nom

\* The files of the photos directory that match the name of a term.
FilesOnDisk(nom) == {f \in disk : FileStartsWith(f.path, nom)}

C3_WorkerExceptionIsContained ==
    (mode = "heuristic" /\ Len(elements) > 0) =>
        /\ tpc # "raised"
        /\ tpc \in {"write", "done"} =>
              \A t \in 1..Len(workers) :
                  /\ workers[t].state = "collected"
                  /\ (~workers[t].raised /\ workers[t].best # NoImage)
                        => ResultsGet(results, elements[t]) = workers[t].best
                  /\ workers[t].raised => ResultsGet(results, elements[t]) = NoImage

\* C3 witness: a finished run in which one worker raised and another term is
\* in the manifest.
C3_SiblingRecordedWitness ==
    /\ tpc = "done"
    /\ \E t \in 1..Len(workers) : \E u \in 1..Len(workers) :
          /\ workers[t].raised
          /\ ~workers[u].raised
          /\ EntriesOf(elements[u]) # <<>>

\* C16: a run over an empty term list ends in an error: it never reaches a
\* reported success, and nothing is submitted or downloaded before it stops.
C16_EmptyTermListAborts ==
    Len(elements) = 0 => (tpc # "done" /\ workers = <<>> /\ disk = {})

\* C22: the terms processed at the same time are never more than the size
\* of the term pool, min(max_workers, number of terms).
C22_TermsRunningWithinPool ==
    Cardinality(TermsRunning) <= Min2(max_workers, Len(elements))

\* C22 witness: the term pool is full and a submitted term waits for a
\* worker.
C22_TermWaitsWitness ==
    /\ tpc = "pool"
    /\ Cardinality(TermsRunning) = Min2(max_workers, Len(elements))
    /\ TermsQueued # {}

\* C25: the byte downloads in flight during a theme run, counted over all
\* terms, are never more than max_workers.
C25_TotalInFlightWithinMaxWorkers == BytesInFlight(1) <= max_workers

\* The results dictionary the workers' return values determine.
ResultsOfWorkers ==
    LET Recorded(r) == r.file # NoImage
    IN  SelectSeq([t \in 1..Len(workers) |->
                      [french |-> elements[t],
                       file |-> IF workers[t].raised THEN NoImage ELSE workers[t].best]],
                  Recorded)

\* C6: the final selection is determined by the set of validated candidates:
\* in a heuristic run the manifest is the one the workers' results give,
\* whatever the order of collection; in a basic run every order in which the
\* photos directory can be listed gives the entry that was written.
C6_SelectionIndependentOfOrder ==
    tpc = "done" =>
        /\ mode = "heuristic" =>
              manifest = ThemeElements(elements, ResultsOfWorkers, conversions, 1)
        /\ mode = "basic" =>
              \A i \in 1..Len(elements) : \A listing \in ListDirOrders(DirNames(disk)) :
                  BasicEntry(listing, elements[i], 1) = EntriesOf(elements[i])

\* C32: the download_image calls of the terms that run at the same time
\* are all given different output paths (the final path differs from the
\* given one in the extension only), within a term and across terms, and
\* every entry of results is the best image of the term it is recorded
\* under: no term's entry is replaced by the result of another term.
C32_DistinctPathsAndOwnEntries ==
    /\ \A t \in TermsRunning : \A u \in TermsRunning :
          \A i \in 1..Len(workers[t].run) : \A j \in 1..Len(workers[u].run) :
              (t # u \/ i # j) =>
                  FileString(TermSavePath(elements[t], workers[t].run, i))
                      # FileString(TermSavePath(elements[u], workers[u].run, j))
    /\ \A r \in Range(results) :
          \E t \in 1..Len(workers) :
              /\ elements[t] = r.french
              /\ workers[t].state = "collected"
              /\ workers[t].best = r.file

\* C32 witness: two terms, the name of one beginning with the name of the
\* other, fetch at the same time a first candidate of the same source.
C32_TwoTermsFetchSameSourceWitness ==
    /\ tpc = "pool"
    /\ elements = <<"main", "main_gauche">>
    /\ TermsRunning = {1, 2}
    /\ \A t \in {1, 2} : workers[t].fetching > 0 /\ workers[t].run[1].source = "unsplash"

\* C33: in a finished run the image recorded for a term is a file that was
\* downloaded for that term, whichever selection wrote the manifest, also
\* when the name of one term begins with the name of another.
C33_EntryIsFileOfItsTerm ==
    tpc = "done" =>
        \A k \in 1..Len(manifest) :
            manifest[k].image_selectionnee.name = manifest[k].nom_francais

\* C34: every file name download_images_for_theme writes to selection.json
\* names a file of the photos directory as convertir_images_pour_docx left
\* it, also when the conversion of a file failed.
C34_ManifestFilesExist ==
    (tpc = "done" /\ mode = "heuristic") =>
        \A k \in 1..Len(manifest) :
            \E f \in disk : f.path = manifest[k].image_selectionnee

\* C35: the elements of the selection.json download_images_for_theme writes
\* are the terms of the configuration that have a result, in the order of
\* the configuration, whatever the order in which the terms were collected.
C35_ManifestInConfigOrder ==
    (tpc = "done" /\ mode = "heuristic") =>
        LET HasResult(nom) == ResultsGet(results, nom) # NoImage
        IN  [k \in 1..Len(manifest) |-> manifest[k].nom_francais]
                = SelectSeq(elements, HasResult)

\* C35 witness: a finished run with two entries whose second term was
\* collected, and recorded in results, before the first.
C35_CollectedInReverseWitness ==
    /\ tpc = "done"
    /\ mode = "heuristic"
    /\ Len(manifest) = 2
    /\ Len(results) = 2
    /\ results[1].french = elements[2]
    /\ results[2].french = elements[1]

\* C31: download_multiple_words_parallel terminates: once the terms are
\* submitted, every term is eventually collected, whatever the number of
\* terms and the size of the pools; the term pool and the fetch pools of the
\* terms do not wait for each other.
C31_BatchTerminates ==
    (tpc = "pool") ~> (\A t \in 1..Len(workers) : workers[t].state = "collected")

\* C31 witness: more terms than threads in the term pool, the last term has
\* waited for a thread and now fetches its candidates while an earlier term
\* is finished.
C31_LastTermFetchesWitness ==
    /\ tpc = "pool"
    /\ Len(elements) > max_workers
    /\ workers[Len(workers)].state = "running"
    /\ workers[Len(workers)].fetching > 0
    /\ workers[1].state \in {"done", "collected"}

-----------------------------------------------------------------------------
(* One selection among the files of a term (SpecSelect) *)

\* MultiSourceImageDownloaderSimple.select_best_image: the source bonus.
SimpleBonus(path) ==
    CASE path.source = "wikipedia" -> 2
      [] path.source = "wikimedia" -> 1
      [] OTHER                     -> 0

SimpleScore(path, body) == HeuristicScore(path, body) - SourceBonus(path) + SimpleBonus(path)

\* What Image.open finds for an entry of all_files: download_from_wikipedia
\* returns bare file names, which resolve against the working directory;
\* download_from_wikimedia returns paths under output_dir.
SimpleBodyAt(d, path, cwd_ok) ==
    IF path.source = "wikipedia" /\ ~cwd_ok THEN "corrupt" ELSE BodyAt(d, path)

RECURSIVE SimpleSelectLoop(_, _, _, _, _, _)
SimpleSelectLoop(d, image_list, cwd_ok, i, best, best_score) ==
    IF i > Len(image_list) THEN best
    ELSE LET p == image_list[i]
             b == SimpleBodyAt(d, p, cwd_ok)
         IN  IF ~Decodable(b)
             THEN SimpleSelectLoop(d, image_list, cwd_ok, i + 1, best, best_score)
             ELSE IF SimpleScore(p, b) > best_score
                  THEN SimpleSelectLoop(d, image_list, cwd_ok, i + 1, p, SimpleScore(p, b))
                  ELSE SimpleSelectLoop(d, image_list, cwd_ok, i + 1, best, best_score)

simple_select_best_image(d, image_list, cwd_ok) ==
    IF image_list = <<>> THEN NoImage
    ELSE SimpleSelectLoop(d, image_list, cwd_ok, 1, NoImage, -1)

\* The order in which download_10_images_for_word asks the sources.
MultiOrder(source) ==
    CASE source = "unsplash"  -> 1
      [] source = "pexels"    -> 2
      [] source = "wikipedia" -> 3
      [] source = "wikimedia" -> 4

\* The order in which download_for_element asks the sources.
UnifiedOrder(source) ==
    CASE source = "unsplash"  -> 1
      [] source = "pexels"    -> 2
      [] source = "pixabay"   -> 3
      [] source = "wikipedia" -> 4
      [] source = "wikimedia" -> 5

\* Candidate lists of up to MaxFiles entries, each with the body its fetch
\* stored ("" when it was rejected), listed source after source.
MultiCandLists ==
    UNION {{c \in [1..n -> [source : {"unsplash", "pexels", "wikipedia", "wikimedia"},
                            body : {"big", "small", "wide", "heavy", "corrupt"}]] :
               \A i \in 1..n : \A j \in 1..n :
                   i < j => MultiOrder(c[i].source) <= MultiOrder(c[j].source)} :
           n \in 0..MaxFiles}

UnifiedCandLists ==
    UNION {{c \in [1..n -> [source : {"unsplash", "pexels", "pixabay", "wikipedia", "wikimedia"},
                            body : {"big", "truncated", ""}]] :
               \A i \in 1..n : \A j \in 1..n :
                   i < j => UnifiedOrder(c[i].source) <= UnifiedOrder(c[j].source)} :
           n \in 0..MaxFiles}

WikimediaTempLists ==
    UNION {[1..n -> [source : {"wikimedia"}, body : {"big", "small", "corrupt"}]] :
           n \in 0..MaxFiles}

PathOf(c, i, ext) == [name |-> TermName, source |-> c[i].source, idx |-> i, ext |-> ext]

StoredFiles(c, ext) ==
    {[path |-> PathOf(c, i, ext), body |-> c[i].body] : i \in {j \in 1..Len(c) : c[j].body # ""}}

SelectInit ==
    /\ ElementIdle
    /\ SharedIdle
    /\ TermIdle
    /\ ThemeIdle
    /\ ValIdle
    /\ AdapterIdle
    /\ sres = NoImage
    /\ spc = "call"
    /\ \/ \E c \in MultiCandLists :
             scall = [kind |-> "heuristic",
                      files |-> StoredFiles(c, "jpg"),
                      list |-> [i \in 1..Len(c) |-> PathOf(c, i, "jpg")]]
       \/ \E c \in UnifiedCandLists :
             \E inf \in Inferences(find_images_for_prefix(StoredFiles(c, "jpg"), TermName)) :
                scall = [kind |-> "clip", files |-> StoredFiles(c, "jpg"), inf |-> inf]
       \/ \E c \in WikimediaTempLists : \E w \in {"", "big", "small"} : \E cwd_ok \in BOOLEAN :
             \E listing \in ListDirOrders({PathOf(c, i, "jpg") : i \in 1..Len(c)}) :
                LET wiki == [name |-> TermName, source |-> "wikipedia", idx |-> 1, ext |-> "jpg"]
                IN  scall = [kind |-> "simple",
                             files |-> StoredFiles(c, "jpg")
                                         \cup (IF w = "" THEN {} ELSE {[path |-> wiki, body |-> w]}),
                             wikipedia_files |-> IF w = "" THEN <<>> ELSE <<wiki>>,
                             listing |-> listing,
                             cwd_ok |-> cwd_ok]

\* MultiSourceImageDownloader.select_best_image(downloaded_files)
SelectHeuristic ==
    /\ spc = "call"
    /\ scall.kind = "heuristic"
    /\ sres' = select_best_image(scall.files, scall.list)
    /\ spc' = "done"
    /\ UNCHANGED <<notSelect, scall>>

\* The selection of select_best_images_for_theme for one element.
SelectClip ==
    /\ spc = "call"
    /\ scall.kind = "clip"
    /\ sres' = LET e == ClipEntry(scall.files, TermName, scall.inf)
               IN  IF e = <<>> THEN NoImage ELSE e[1].image_selectionnee
    /\ spc' = "done"
    /\ UNCHANGED <<notSelect, scall>>

\* MultiSourceImageDownloaderSimple: all_files is the Wikipedia list followed
\* by the Wikimedia files in the order os.listdir(temp_dir) gave them.
SelectSimple ==
    /\ spc = "call"
    /\ scall.kind = "simple"
    /\ sres' = simple_select_best_image(scall.files, scall.wikipedia_files \o scall.listing,
                                        scall.cwd_ok)
    /\ spc' = "done"
    /\ UNCHANGED <<notSelect, scall>>

NextSelect ==
    \/ SelectHeuristic
    \/ SelectClip
    \/ SelectSimple

SpecSelect == SelectInit /\ [][NextSelect]_vars

-----------------------------------------------------------------------------
(* Properties of a selection (SpecSelect) *)

\* Rank of a source in the static priority order unsplash, pexels,
\* wikipedia, wikimedia (lower is better).
PriorityRank(path) == 5 - SourceBonus(path)

\* The scored candidates of the call, as <<path, score>> records.
ScoredCandidates ==
    IF scall.kind = "heuristic"
    THEN {[path |-> scall.list[i], score |-> HeuristicScore(scall.list[i],
                                                 BodyAt(scall.files, scall.list[i]))] :
             i \in {j \in 1..Len(scall.list) : Decodable(BodyAt(scall.files, scall.list[j]))}}
    ELSE Range(score_batch(scall.files, find_images_for_prefix(scall.files, TermName), scall.inf))

\* The scored candidate that was selected.
Winner == CHOOSE b \in ScoredCandidates : b.path = sres

\* No scored candidate has a higher score than the selected one.
WinnerHasMaxScore ==
    /\ (ScoredCandidates = {}) <=> (sres = NoImage)
    /\ ScoredCandidates # {} =>
          /\ \E b \in ScoredCandidates : b.path = sres
          /\ \A c \in ScoredCandidates : c.score <= Winner.score

\* The selected candidate precedes every other candidate of the same score
\* in source priority, then in discovery order.
TieByPriorityThenDiscovery ==
    ScoredCandidates # {} =>
        \A c \in ScoredCandidates :
            (c.score = Winner.score /\ c.path # sres) =>
                \/ PriorityRank(sres) < PriorityRank(c.path)
                \/ PriorityRank(sres) = PriorityRank(c.path) /\ sres.idx < c.path.idx

\* The selected candidate precedes every other candidate of the same score
\* in the alphabetical order of the file names.
TieByFileName ==
    ScoredCandidates # {} =>
        \A c \in ScoredCandidates :
            (c.score = Winner.score /\ c.path # sres) => NameBefore(sres, c.path)

\* C7 as stated: in the heuristic and in the CLIP selection the selected
\* candidate has the maximal score, and among the candidates of maximal
\* score it is the one of the highest source priority (unsplash, pexels,
\* wikipedia, wikimedia), then the first discovered.
C7_TiesBySourcePriority ==
    (spc = "done" /\ scall.kind \in {"heuristic", "clip"}) =>
        (WinnerHasMaxScore /\ TieByPriorityThenDiscovery)

\* C7, amended: the selected candidate has the maximal score in both
\* selections; among candidates of maximal score select_best_image takes the
\* one of the highest source priority, then the first discovered, and the
\* CLIP selection takes the one whose file name sorts first.
C7_MaxScoreThenListOrder ==
    (spc = "done" /\ scall.kind \in {"heuristic", "clip"}) =>
        /\ WinnerHasMaxScore
        /\ scall.kind = "heuristic" => TieByPriorityThenDiscovery
        /\ scall.kind = "clip" => TieByFileName

\* C7 witness: a CLIP selection among candidates that share the maximal
\* score, won by the file name that sorts first against a candidate of a
\* source of higher priority.
C7_TieWitness ==
    /\ spc = "done"
    /\ scall.kind = "clip"
    /\ sres # NoImage
    /\ \E c \in ScoredCandidates :
          /\ PriorityRank(c.path) < PriorityRank(sres)
          /\ \A e \in ScoredCandidates : e.score <= c.score
          /\ \E b \in ScoredCandidates : b.path = sres /\ b.score = c.score

\* C8: select_best_image returns the same winner for the same set of
\* candidate files: for the lists the downloader can build from that set
\* (the Wikimedia files in any order os.listdir can give) the result is the
\* one that was returned.
C8_SameSetSameWinner ==
    (spc = "done" /\ scall.kind = "simple") =>
        \A listing \in ListDirOrders(Range(scall.listing)) :
            simple_select_best_image(scall.files, scall.wikipedia_files \o listing, scall.cwd_ok)
              = sres

\* The files of the call that load.
LoadableFiles == {f \in scall.files : Loadable(f.body)}

\* C14: when the batched inference fails, every candidate file of the term
\* is scored by score_image, with 0.0 when that inference fails too or the
\* file does not load, and the term gets a selection.
C14_InferenceFailureDegrades ==
    (spc = "done" /\ scall.kind = "clip" /\ scall.inf.fails /\ LoadableFiles # {}) =>
        /\ sres # NoImage
        /\ {c.path : c \in ScoredCandidates} = {f.path : f \in scall.files}
        /\ \A c \in ScoredCandidates :
              c.score = IF Loadable(BodyAt(scall.files, c.path)) /\ ~scall.inf.single_fails
                        THEN WeightedMax(scall.inf.logits[c.path], ScoreImageWeights)
                        ELSE 0

\* C14 witness: both inferences failed for a term with two files and an
\* image was selected.
C14_AllInferenceFailedWitness ==
    /\ spc = "done"
    /\ scall.kind = "clip"
    /\ scall.inf.fails /\ scall.inf.single_fails
    /\ Cardinality(scall.files) = 2
    /\ sres # NoImage

\* C37: for the same images and the same term the batched scorer and the
\* fallback scorer apply the same prompts and weights: when every file of
\* the term loads and score_image's inference works, the scores and the
\* selected image are the same whether the batched inference succeeded or
\* raised.
C37_SameScoreOnBothPaths ==
    (spc = "done" /\ scall.kind = "clip" /\ ~scall.inf.single_fails
        /\ LoadableFiles = scall.files) =>
        LET paths == find_images_for_prefix(scall.files, TermName)
            ok    == [scall.inf EXCEPT !.fails = FALSE]
            ko    == [scall.inf EXCEPT !.fails = TRUE]
        IN  /\ score_batch(scall.files, paths, ok) = score_batch(scall.files, paths, ko)
            /\ ClipEntry(scall.files, TermName, ok) = ClipEntry(scall.files, TermName, ko)

\* C38: score_batch returns one scored entry for each input path, in the
\* order of the input, whether the batched inference of a group succeeded or
\* raised, also for an image that cannot be loaded.
C38_OneEntryPerInputPath ==
    (spc = "done" /\ scall.kind = "clip") =>
        LET paths  == find_images_for_prefix(scall.files, TermName)
            scored == score_batch(scall.files, paths, scall.inf)
        IN  [k \in 1..Len(scored) |-> scored[k].path] = paths

\* C21: the score select_best_image gives an image is +2 when its shorter
\* side is at least 800 px, +3 / +1 for a short/long ratio above 0.8 / 0.6,
\* the source priority bonus, and +1 under 5 MB.
C21_ScoreIsSumOfBonuses ==
    (spc = "done" /\ scall.kind = "heuristic") =>
        \A i \in 1..Len(scall.list) :
            LET p   == scall.list[i]
                b   == BodyAt(scall.files, p)
                img == ImageOf(b)
                lo  == Min2(img.w, img.h)
                hi  == Max2(img.w, img.h)
            IN  Decodable(b) =>
                  HeuristicScore(p, b) =
                      (IF lo >= 800 THEN 2 ELSE 0)
                    + (IF 10 * lo > 8 * hi THEN 3 ELSE IF 10 * lo > 6 * hi THEN 1 ELSE 0)
                    + (CASE p.source = "unsplash"  -> 4
                         [] p.source = "pexels"    -> 3
                         [] p.source = "wikipedia" -> 2
                         [] p.source = "wikimedia" -> 1
                         [] OTHER                  -> 0)
                    + (IF img.bytes < 5 * 1024 * 1024 THEN 1 ELSE 0)

-----------------------------------------------------------------------------
(* One term with the urls of its candidates (SpecElement) *)

\* The urls a provider can name in the model.
Urls == {"img/a", "img/b"}

\* The image urls of a provider's answer, in the order of the answer; an
\* answer that failed is the empty one.
UrlLists == UNION {[1..n -> Urls] : n \in 0..MaxCand}

\* The order in which download_for_element asks the sources.
ElementOrder == <<"unsplash", "pexels", "pixabay", "wikipedia", "wikimedia">>

AfterSource(source) ==
    CASE source = "unsplash"  -> "pexels"
      [] source = "pexels"    -> "pixabay"
      [] source = "pixabay"   -> "wikipedia"
      [] source = "wikipedia" -> "wikimedia"

\* images_per_source = min(3, max(1, images_par_element // num_sources))
ImagesPerSource(ipe, avail) == Min2(3, Max2(1, ipe \div Cardinality(avail)))

\* The candidate dictionaries an adapter builds: 'url' and 'source'.
ElementCandidates(source, urls) ==
    [i \in 1..Len(urls) |-> [source |-> source, url |-> urls[i]]]

\* download_from_unsplash / _pexels / _pixabay return [] without their key
\* and every result of the answer otherwise; download_from_wikipedia and
\* download_from_wikimedia return results[:count].
ElementAdapter(source, avail, urls, count) ==
    IF source \in {"unsplash", "pexels", "pixabay"}
    THEN IF source \notin avail THEN <<>> ELSE ElementCandidates(source, urls)
    ELSE ElementCandidates(source, Take(urls, count))

\* download_for_element calls the three keyed adapters unconditionally and
\* the two others when they are available.
ElementAsked(source, avail) ==
    source \in {"unsplash", "pexels", "pixabay"} \/ source \in avail

\* {nom_francais}_{source}_{i+1}.jpg
ElementPath(images, i) ==
    [name |-> TermName, source |-> images[i].source, idx |-> i, ext |-> "jpg"]

\* The submission loop of download_for_element.
ElementSubmit(images, ceiling) ==
    [i \in 1..Len(Submitted(images, ceiling)) |->
        [info |-> Submitted(images, ceiling)[i], output_path |-> ElementPath(images, i),
         state |-> "queued", success |-> FALSE, collected |-> FALSE]]

ElementInit ==
    /\ SelectIdle
    /\ TermIdle
    /\ ThemeIdle
    /\ ValIdle
    /\ AdapterIdle
    /\ \/ /\ el_cls = "unified"
          /\ images_par_element \in 1..MaxCand
          /\ el_available \in AvailableSourceSets
          /\ el_pc = "unsplash"
       \/ /\ el_cls = "simple"
          /\ images_par_element = 0
          /\ el_available = {}
          /\ el_pc = "simple_wikipedia"
    /\ max_workers \in 1..MaxWorkers
    /\ disk = {}
    /\ el_images = <<>>
    /\ el_futures = <<>>
    /\ el_files = <<>>
    /\ el_best = NoImage

\* One adapter call of download_for_element and all_images.extend; after the
\* last one, `if not all_images: return []`, else the pool and the submission
\* loop.
ElementSearch(source) ==
    /\ el_cls = "unified"
    /\ el_pc = source
    /\ \E urls \in UrlLists :
          LET found == IF ElementAsked(source, el_available)
                       THEN el_images \o ElementAdapter(source, el_available, urls,
                                            ImagesPerSource(images_par_element, el_available))
                       ELSE el_images
          IN  /\ Len(el_images) + Len(urls) <= MaxCand
              /\ el_images' = found
              /\ IF source # "wikimedia"
                 THEN /\ el_pc' = AfterSource(source)
                      /\ el_futures' = el_futures
                 ELSE IF NothingFound(found)
                 THEN /\ el_pc' = "done"
                      /\ el_futures' = el_futures
                 ELSE /\ el_pc' = "fetch"
                      /\ el_futures' = ElementSubmit(found, images_par_element)
    /\ UNCHANGED <<notElement, max_workers, disk, el_cls, images_par_element,
                   el_available, el_files, el_best>>

ElementInFlight == {i \in 1..Len(el_futures) : el_futures[i].state = "running"}
ElementQueued   == {i \in 1..Len(el_futures) : el_futures[i].state = "queued"}

\* A worker thread of the pool takes the oldest queued download_image call.
ElementStartFetch(i) ==
    /\ el_pc = "fetch"
    /\ i \in ElementQueued
    /\ \A j \in ElementQueued : i <= j
    /\ Cardinality(ElementInFlight) < max_workers
    /\ el_futures' = [el_futures EXCEPT ![i].state = "running"]
    /\ UNCHANGED <<notElement, max_workers, disk, el_cls, images_par_element,
                   el_available, el_pc, el_images, el_files, el_best>>

\* download_image(image_info, output_path) returns: the file stays under
\* output_path when the image was accepted.
ElementFinishFetch(i) ==
    /\ el_pc = "fetch"
    /\ i \in ElementInFlight
    /\ \E resp \in UnifiedFetches :
          LET r == UnifiedDownloadImage(resp, CleanInfo, "jpg")
          IN  /\ el_futures' = [el_futures EXCEPT ![i] =
                    [@ EXCEPT !.state = "done", !.success = r.accepted]]
              /\ disk' = IF r.accepted
                         THEN {f \in disk : f.path # el_futures[i].output_path}
                                \cup {[path |-> el_futures[i].output_path, body |-> resp.body]}
                         ELSE disk
    /\ UNCHANGED <<notElement, max_workers, el_cls, images_par_element,
                   el_available, el_pc, el_images, el_files, el_best>>

\* as_completed hands over a finished future; future.result() and the
\* append to downloaded_files.
ElementCollect(i) ==
    /\ el_pc = "fetch"
    /\ i \in 1..Len(el_futures)
    /\ el_futures[i].state = "done"
    /\ ~el_futures[i].collected
    /\ el_futures' = [el_futures EXCEPT ![i].collected = TRUE]
    /\ el_files' = IF el_futures[i].success
                   THEN Append(el_files, el_futures[i].output_path)
                   ELSE el_files
    /\ UNCHANGED <<notElement, max_workers, disk, el_cls, images_par_element,
                   el_available, el_pc, el_images, el_best>>

\* The with block is left and downloaded_files returned.
ElementReturn ==
    /\ el_pc = "fetch"
    /\ \A i \in 1..Len(el_futures) : el_futures[i].collected
    /\ el_pc' = "done"
    /\ UNCHANGED <<notElement, max_workers, disk, el_cls, images_par_element,
                   el_available, el_images, el_futures, el_files, el_best>>

\* What the GET of an article image yields in the model of the simple
\* downloader.
SimpleFetches == {r \in FetchResponses : r.status = "neterr" \/ r.body \in {"big", "small"}}

\* The answers to the downloads of the images get_article_images found.
SimpleArticleRuns == UNION {[1..n -> SimpleFetches] : n \in 0..MaxFiles}

\* download_article_images_parallel: {filename_prefix}_{i+1}.jpg handed to
\* download_image_fast, which sniffs the payload as download_image does.
SimpleArticleSave(run, i) ==
    MSDownloadImage(run[i], [name |-> TermName, source |-> "wikipedia", idx |-> i, ext |-> "jpg"])

\* The files download_article_images_parallel wrote.
SimpleArticleFiles(run) ==
    {[path |-> SimpleArticleSave(run, i).path, body |-> run[i].body] :
        i \in {j \in 1..Len(run) : SimpleArticleSave(run, j).success}}

\* downloaded_files of download_article_images_parallel, in submission order.
RECURSIVE SimpleArticleNames(_, _)
SimpleArticleNames(run, i) ==
    IF i > Len(run) THEN <<>>
    ELSE (IF SimpleArticleSave(run, i).success THEN <<SimpleArticleSave(run, i).path>> ELSE <<>>)
            \o SimpleArticleNames(run, i + 1)

\* MultiSourceImageDownloaderSimple.download_from_wikipedia and
\* all_files.extend: the adapter looks the article up and downloads its
\* images; an exception of the lookup is caught and gives [].
SimpleWikipedia ==
    /\ el_cls = "simple"
    /\ el_pc = "simple_wikipedia"
    /\ \E run \in SimpleArticleRuns :
          /\ disk' = {f \in disk : \A g \in SimpleArticleFiles(run) : f.path # g.path}
                        \cup SimpleArticleFiles(run)
          /\ el_files' = el_files \o SimpleArticleNames(run, 1)
    /\ el_pc' = "simple_wikimedia"
    /\ UNCHANGED <<notElement, max_workers, el_cls, images_par_element, el_available,
                   el_images, el_futures, el_best>>

\* MultiSourceImageDownloaderSimple.download_from_wikimedia and
\* all_files.extend: search_and_download fills the temporary directory, whose
\* files are moved to output_dir in the order of os.listdir.
SimpleWikimedia ==
    /\ el_cls = "simple"
    /\ el_pc = "simple_wikimedia"
    /\ \E c \in WikimediaTempLists :
          \E listing \in ListDirOrders({PathOf(c, i, "jpg") : i \in 1..Len(c)}) :
             /\ disk' = {f \in disk : \A g \in StoredFiles(c, "jpg") : f.path # g.path}
                           \cup StoredFiles(c, "jpg")
             /\ el_files' = el_files \o listing
    /\ el_pc' = "simple_select"
    /\ UNCHANGED <<notElement, max_workers, el_cls, images_par_element, el_available,
                   el_images, el_futures, el_best>>

\* select_best_image(all_files) and the return of
\* MultiSourceImageDownloaderSimple.download_10_images_for_word.
SimpleSelectBest ==
    /\ el_cls = "simple"
    /\ el_pc = "simple_select"
    /\ \E cwd_ok \in BOOLEAN : el_best' = simple_select_best_image(disk, el_files, cwd_ok)
    /\ el_pc' = "done"
    /\ UNCHANGED <<notElement, max_workers, disk, el_cls, images_par_element, el_available,
                   el_images, el_futures, el_files>>

\* The network calls of a term that are made without a timeout argument:
\* session.get(self.API_URL, params=params) in get_article_images,
\* search_images and get_image_info, session.get(url, stream=True) in
\* WikimediaDownloader.download_image.  Every session.get of
\* UnifiedImageDownloader has timeout=10 or timeout=15.
CallsWithoutTimeout(position) ==
    CASE position = "simple_wikipedia" -> {"get_article_images"}
      [] position = "simple_wikimedia" -> {"search_images", "get_image_info", "download_image"}
      [] OTHER                         -> {}

\* The provider accepts the connection of a call and never answers: with no
\* timeout the call does not return, and neither does the term.
ElementCallBlocks ==
    /\ CallsWithoutTimeout(el_pc) # {}
    /\ el_pc' = "blocked"
    /\ UNCHANGED <<notElement, max_workers, disk, el_cls, images_par_element, el_available,
                   el_images, el_futures, el_files, el_best>>

NextElement ==
    \/ \E source \in Range(ElementOrder) : ElementSearch(source)
    \/ ElementCallBlocks
    \/ SimpleWikipedia
    \/ SimpleWikimedia
    \/ SimpleSelectBest
    \/ \E i \in 1..MaxCand : ElementStartFetch(i)
    \/ \E i \in 1..MaxCand : ElementFinishFetch(i)
    \/ \E i \in 1..MaxCand : ElementCollect(i)
    \/ ElementReturn

SpecElement == ElementInit /\ [][NextElement]_vars

\* The threads of a term keep running: a step that can be taken is taken.
SpecElementFair == SpecElement /\ WF_vars(NextElement)

\* The candidates whose download_image call has started.
ElementFetched == {i \in 1..Len(el_futures) : el_futures[i].state # "queued"}

\* C18: the calls submitted for a term are never more than the ceiling, and
\* the i-th of them is for the i-th candidate of the merged list, so the
\* candidates fetched are among the first ones in discovery order.
C18_FetchedWithinCeilingInOrder ==
    el_cls = "unified" =>
        /\ Len(el_futures) <= images_par_element
        /\ Cardinality(ElementFetched) <= images_par_element
        /\ Len(el_futures) <= Len(el_images)
        /\ \A i \in 1..Len(el_futures) : el_futures[i].info = el_images[i]
        /\ \A i \in ElementFetched : i <= images_par_element

\* C18 witness: a finished term that found more candidates than the ceiling
\* and fetched as many as the ceiling allows.
C18_CeilingCutsWitness ==
    /\ el_cls = "unified"
    /\ el_pc = "done"
    /\ Len(el_images) > images_par_element
    /\ Cardinality(ElementFetched) = images_par_element

\* C19: the merged candidate list of a term never holds the same
\* (source, url) twice, and no (source, url) is submitted twice.
C19_NoDuplicateCandidate ==
    /\ \A i \in 1..Len(el_images) : \A j \in 1..Len(el_images) :
          i # j => el_images[i] # el_images[j]
    /\ \A i \in 1..Len(el_futures) : \A j \in 1..Len(el_futures) :
          i # j => el_futures[i].info # el_futures[j].info

\* The positions of a term at which a source adapter is still to be called
\* or has not returned.
ElementSearching ==
    el_pc \in Range(ElementOrder) \cup {"simple_wikipedia", "simple_wikimedia"}

\* C20: discovery and retrieval are separate phases: while an adapter call
\* of the term is still to return, no image bytes have been fetched, neither
\* by an adapter nor by a fetch call of the term.
C20_NoBytesBeforeSearchesReturn ==
    ElementSearching => (disk = {} /\ ElementFetched = {} /\ el_files = <<>>)

\* C36: in the simple downloader every entry of the list handed to
\* select_best_image is a path at which the downloaded file is found, so
\* every file downloaded for the term, from Wikipedia as from Wikimedia
\* Commons, takes part in the selection: the best image of a finished term
\* is the one the selection gives when every entry resolves to its file,
\* and a term with a downloaded image that can be opened has a best image.
C36_EveryDownloadTakesPart ==
    (el_cls = "simple" /\ el_pc = "done") =>
        /\ el_best = simple_select_best_image(disk, el_files, TRUE)
        /\ (\E k \in 1..Len(el_files) : Decodable(BodyAt(disk, el_files[k])))
               => el_best # NoImage

\* C24: every network call of a term has a timeout, so the term finishes
\* even when a provider never answers.
C24_TermEventuallyFinishes == <>(el_pc = "done")

\* C29: images_per_source is between 1 and 3 for every set of available
\* sources, and a source contributes at most 3 candidates to the merged list
\* of a term: download_for_element asks each adapter once, with
\* count = images_per_source, and extends the list with what it returns.
C29_PerSourceBetweenOneAndThree ==
    /\ \A ipe \in 0..20 : \A avail \in AvailableSourceSets :
          ImagesPerSource(ipe, avail) \in 1..3
    /\ (apc = "done" /\ acall.adapter \in UnifiedAdapters) => Len(ares.items) <= 3

=============================================================================
